---- MODULE Spec2Model ----
(***************************************************************************)
(* VSHater: the challenge page (gesture sequencer, classifiers, motion     *)
(* history) served by src/server.ts and the control server that releases   *)
(* the session's onComplete callback.                                      *)
(*                                                                         *)
(* Coordinates, distances and visibilities are integers in thousandths of  *)
(* the normalised unit used by the landmark library (0.08 is 80).  Elbow   *)
(* angles are whole degrees handed in with the frame.                      *)
(***************************************************************************)
EXTENDS Integers, Sequences, FiniteSets, TLC

(***************************************************************************)
(* Program constants                                                       *)
(***************************************************************************)
POSE_CONFIDENCE_THRESHOLD == 5
HISTORY_CAPACITY == 30
\* a faulty minimum: a verdict after ten samples
MIN_SAMPLES_Ten == 10

\* the samples a window needs before a dynamic classifier gives a verdict
MIN_SAMPLES == 15

MIN_CHANGES == 3
HANDS_NOISE == 15
HANDS_RANGE == 80
HEAD_NOISE == 8
HEAD_RANGE == 40
\* a faulty last index: the challenge ends one stage early
LAST_IMAGE_One == 1

\* index of the last stage, as tested by advanceToNextImage
LAST_IMAGE == 2

ALL_CHALLENGES ==
  <<"67hands", "fanum", "monkeythink", "khaby", "mewing", "monkeyhappy", "dab">>

Poses == {ALL_CHALLENGES[i] : i \in 1..Len(ALL_CHALLENGES)}

(***************************************************************************)
(* Bounds of the model                                                     *)
(***************************************************************************)
MaxPushes == 32
MaxSessions == 2
MaxRequests == 2
MaxForeign == 1
MaxClock == 80
MaxLen == 3

(***************************************************************************)
(* Landmark frames.  A pose frame is NoLandmarks (results.poseLandmarks    *)
(* undefined) or a record whose pts maps the indices present in the array  *)
(* to points [x, y, v]; an empty pts is an empty array.  A face is NoFace  *)
(* (null) or a function from the indices present to points.                *)
(***************************************************************************)
Degenerate == 0 - 1

NoLandmarks == [defined |-> FALSE, pts |-> <<>>, leftElbowAngle |-> Degenerate,
                rightElbowAngle |-> Degenerate]

NoFace == [defined |-> FALSE, pts |-> <<>>]

Pt(px, py, pv) == [x |-> px, y |-> py, v |-> pv]

Has(f, i) == i \in DOMAIN f.pts

Abs(a) == IF a < 0 THEN 0 - a ELSE a

\* dist(a, b) < d, on squares
distLt(a, b, d) == (a.x - b.x) * (a.x - b.x) + (a.y - b.y) * (a.y - b.y) < d * d

SeqMax(hist) == CHOOSE m \in {hist[i] : i \in 1..Len(hist)} :
                  \A j \in 1..Len(hist) : hist[j] <= m

SeqMin(hist) == CHOOSE m \in {hist[i] : i \in 1..Len(hist)} :
                  \A j \in 1..Len(hist) : hist[j] >= m

getRange(hist) == SeqMax(hist) - SeqMin(hist)

\* a faulty memory: a step within the noise level forgets the direction
dirAfterSmallForgotten(lastDir) == 0

\* lastDir is assigned only inside if (Math.abs(diff) > noise)
dirAfterSmall(lastDir) == lastDir

RECURSIVE countFrom(_, _, _, _, _)
countFrom(hist, noise, i, lastDir, changes) ==
  IF i > Len(hist) THEN changes
  ELSE LET diff == hist[i] - hist[i - 1]
           dir == IF diff > 0 THEN 1 ELSE 0 - 1
       IN IF Abs(diff) > noise
          THEN countFrom(hist, noise, i + 1, dir,
                         IF lastDir # 0 /\ dir # lastDir THEN changes + 1 ELSE changes)
          ELSE countFrom(hist, noise, i + 1, dirAfterSmall(lastDir), changes)

\* a faulty count: every step above the noise level counts as a change
countChangesAnyMove(hist, noise) ==
  Cardinality({i \in 2..Len(hist) : Abs(hist[i] - hist[i - 1]) > noise})

countChanges(hist, noise) == countFrom(hist, noise, 2, 0, 0)

\* faulty eviction rules: never evicting; evicting the newest sample
pushSampleUnbounded(hist, v) == Append(hist, v)

pushSampleDropNewest(hist, v) ==
  LET h == Append(hist, v)
  IN IF Len(h) > HISTORY_CAPACITY THEN SubSeq(h, 1, HISTORY_CAPACITY) ELSE h

\* hist.push(v); if (hist.length > 30) hist.shift()
pushSample(hist, v) ==
  LET h == Append(hist, v)
  IN IF Len(h) > HISTORY_CAPACITY THEN Tail(h) ELSE h

(***************************************************************************)
(* Classifiers.  The two dynamic ones return the verdict together with the *)
(* histories they leave behind.                                            *)
(***************************************************************************)
check67Hands(lm, lh, rh) ==
  IF ~Has(lm, 15) \/ ~Has(lm, 16)
  THEN [match |-> FALSE, left |-> lh, right |-> rh, pushed |-> FALSE]
  ELSE LET l == pushSample(lh, lm.pts[15].y)
           r == pushSample(rh, lm.pts[16].y)
           verdict ==
             IF Len(l) < MIN_SAMPLES THEN FALSE
             ELSE IF getRange(l) < HANDS_RANGE \/ getRange(r) < HANDS_RANGE THEN FALSE
             ELSE countChanges(l, HANDS_NOISE) >= MIN_CHANGES
                  /\ countChanges(r, HANDS_NOISE) >= MIN_CHANGES
       IN [match |-> verdict, left |-> l, right |-> r, pushed |-> TRUE]

\* a faulty verdict: one of the two signs is enough
tongueOrShake(isTongueOut, isShakingHead) == isTongueOut \/ isShakingHead

\* return isTongueOut && isShakingHead
tongueAndShake(isTongueOut, isShakingHead) == isTongueOut /\ isShakingHead

checkFanumTax(face, hh) ==
  IF ~face.defined \/ DOMAIN face.pts = {}
  THEN [match |-> FALSE, head |-> hh, pushed |-> FALSE]
  ELSE IF ~Has(face, 13) \/ ~Has(face, 14) \/ ~Has(face, 78) \/ ~Has(face, 308)
          \/ ~Has(face, 1)
  THEN [match |-> FALSE, head |-> hh, pushed |-> FALSE]
  ELSE LET mouthWidth == Abs(face.pts[308].x - face.pts[78].x) + 1
           mouthOpen == Abs(face.pts[14].y - face.pts[13].y)
           \* openRatio = mouthOpen / mouthWidth > 0.35
           isTongueOut == 100 * mouthOpen > 35 * mouthWidth
           h == pushSample(hh, face.pts[1].x)
           isShakingHead ==
             IF Len(h) >= MIN_SAMPLES
             THEN countChanges(h, HEAD_NOISE) >= MIN_CHANGES /\ getRange(h) > HEAD_RANGE
             ELSE FALSE
       IN [match |-> tongueAndShake(isTongueOut, isShakingHead), head |-> h,
           pushed |-> TRUE]

checkMonkeyThink(lm) ==
  IF ~Has(lm, 0) THEN FALSE
  ELSE LET nose == lm.pts[0]
           fingerNearMouth(idx) ==
             /\ Has(lm, idx)
             /\ lm.pts[idx].v > 300
             /\ \/ (Has(lm, 9) /\ distLt(lm.pts[idx], lm.pts[9], 80))
                \/ (Has(lm, 10) /\ distLt(lm.pts[idx], lm.pts[10], 80))
                \/ (distLt(lm.pts[idx], nose, 120) /\ lm.pts[idx].y > nose.y)
       IN fingerNearMouth(19) \/ fingerNearMouth(20)

\* calculateAngle of checkKhaby answers 180 for a zero-length limb
calculateAngle(a) == IF a = Degenerate THEN 180 ELSE a

\* a faulty test: visibility is not looked at
lowVisibilityIgnored(lm, S, least) == FALSE

\* one of the landmarks S is less visible than least
lowVisibility(lm, S, least) == \E i \in S : lm.pts[i].v < least

checkKhaby(lm) ==
  IF \E i \in {11, 12, 13, 14, 15, 16, 23, 24} : ~Has(lm, i) THEN FALSE
  ELSE IF lowVisibility(lm, {15, 16, 13, 14}, 500) THEN FALSE
  ELSE LET torsoSum == lm.pts[11].y + lm.pts[12].y + lm.pts[23].y + lm.pts[24].y
           leftWristBelowShoulder == lm.pts[15].y > lm.pts[11].y
           rightWristBelowShoulder == lm.pts[16].y > lm.pts[12].y
           \* wrist.y < midTorsoY with midTorsoY = torsoSum / 4
           leftWristAboveMidTorso == 4 * lm.pts[15].y < torsoSum
           rightWristAboveMidTorso == 4 * lm.pts[16].y < torsoSum
           leftElbowBent == calculateAngle(lm.leftElbowAngle) < 120
           rightElbowBent == calculateAngle(lm.rightElbowAngle) < 120
       IN /\ leftWristBelowShoulder /\ rightWristBelowShoulder
          /\ leftWristAboveMidTorso /\ rightWristAboveMidTorso
          /\ leftElbowBent /\ rightElbowBent

jawlinePoints == {132, 136, 150, 149, 176, 148, 152, 377, 400, 378, 379, 365, 361}

checkFingerOnJawline(lm, face, idx) ==
  IF ~Has(lm, idx) \/ lm.pts[idx].v < 300 THEN FALSE
  ELSE IF lm.pts[idx].y < face.pts[1].y THEN FALSE
  ELSE \E j \in jawlinePoints : Has(face, j) /\ distLt(lm.pts[idx], face.pts[j], 70)

checkMewing(lm, face) ==
  IF ~face.defined \/ DOMAIN face.pts = {} THEN FALSE
  ELSE IF ~Has(face, 1) \/ ~Has(face, 152) THEN FALSE
  ELSE checkFingerOnJawline(lm, face, 19) \/ checkFingerOnJawline(lm, face, 20)

isFingerUp(lm, index, wrist) ==
  IF ~Has(lm, index) \/ ~Has(lm, wrist) THEN FALSE
  ELSE IF lm.pts[index].v < 200 THEN FALSE
  ELSE lm.pts[index].y < lm.pts[wrist].y

\* a faulty test: the right hand is not looked at
fingerUpLeftOnly(leftUp, rightUp) == leftUp

\* isFingerUp(leftIndex, leftWrist) || isFingerUp(rightIndex, rightWrist)
fingerUpEither(leftUp, rightUp) == leftUp \/ rightUp

checkMonkeyHappy(lm, face) ==
  IF ~face.defined \/ DOMAIN face.pts = {} THEN FALSE
  ELSE LET hasSmile ==
             IF Has(face, 61) /\ Has(face, 291) /\ Has(face, 13)
             THEN \/ face.pts[61].y <= face.pts[13].y + 20
                  \/ face.pts[291].y <= face.pts[13].y + 20
             ELSE TRUE
           fingerUp == fingerUpEither(isFingerUp(lm, 19, 15), isFingerUp(lm, 20, 16))
       IN hasSmile /\ fingerUp

\* a faulty test: any arm that has a length counts as extended
isArmExtendedAnyAngle(a) == a # Degenerate

\* the elbow angle is above 110 degrees
isArmExtended(a) == IF a = Degenerate THEN FALSE ELSE a > 110

isArmBent(a) == IF a = Degenerate THEN FALSE ELSE a < 130

checkDab(lm) ==
  IF \E i \in {0, 11, 12, 13, 14, 15, 16} : ~Has(lm, i) THEN FALSE
  ELSE LET nose == lm.pts[0]
           noseNearLeftArm == distLt(nose, lm.pts[13], 400) \/ distLt(nose, lm.pts[15], 300)
           leftDab == /\ noseNearLeftArm
                      /\ isArmBent(lm.leftElbowAngle)
                      /\ isArmExtended(lm.rightElbowAngle)
           noseNearRightArm == distLt(nose, lm.pts[14], 400) \/ distLt(nose, lm.pts[16], 300)
           rightDab == /\ noseNearRightArm
                       /\ isArmBent(lm.rightElbowAngle)
                       /\ isArmExtended(lm.leftElbowAngle)
       IN leftDab \/ rightDab


checkCurrentPose(requiredPose, lm, face, lh, rh, hh) ==
  LET keep(b, fn) == [match |-> b, left |-> lh, right |-> rh, head |-> hh,
                      pushed |-> FALSE, ran |-> fn]
  IN CASE requiredPose = "67hands" ->
            LET r == check67Hands(lm, lh, rh)
            IN [match |-> r.match, left |-> r.left, right |-> r.right, head |-> hh,
                pushed |-> r.pushed, ran |-> "check67Hands"]
       [] requiredPose = "fanum" ->
            LET r == checkFanumTax(face, hh)
            IN [match |-> r.match, left |-> lh, right |-> rh, head |-> r.head,
                pushed |-> r.pushed, ran |-> "checkFanumTax"]
       [] requiredPose = "monkeythink" -> keep(checkMonkeyThink(lm), "checkMonkeyThink")
       [] requiredPose = "khaby" -> keep(checkKhaby(lm), "checkKhaby")
       [] requiredPose = "mewing" -> keep(checkMewing(lm, face), "checkMewing")
       [] requiredPose = "monkeyhappy" -> keep(checkMonkeyHappy(lm, face), "checkMonkeyHappy")
       [] requiredPose = "dab" -> keep(checkDab(lm), "checkDab")
       [] OTHER -> keep(FALSE, "none")

\* a faulty lookup: always the pose of the first stage
requiredPoseAtFirst(images, index) == images[1]

\* IMAGES[imageIndex].pose
requiredPoseAt(images, index) == images[index + 1]

\* a faulty guard: the cooldown is not honoured
skipsFrameInactiveOnly(active, transitioning) == ~active

\* a faulty guard: a page that stopped detecting still classifies
skipsFrameTransitioningOnly(active, transitioning) == transitioning

\* the two early returns of onPoseResults
skipsFrame(active, transitioning) == ~active \/ transitioning

\* a faulty threshold test: one frame early
reachedThresholdEarly(counter) == counter >= POSE_CONFIDENCE_THRESHOLD - 1

\* poseConfidenceCounter >= POSE_CONFIDENCE_THRESHOLD
reachedThreshold(counter) == counter >= POSE_CONFIDENCE_THRESHOLD

\* a faulty reset: a miss costs one step instead of all
counterAfterMissDecay(counter) == IF counter > 0 THEN counter - 1 ELSE 0

\* the counter after a frame that did not match
counterAfterMiss(counter) == 0

(***************************************************************************)
(* Frames fed to the page                                                  *)
(***************************************************************************)
Samples == {0, 120}
NoseSamples == {400, 450}

StandPts(lw, rw) ==
  [i \in {0, 9, 10, 11, 12, 13, 14, 15, 16, 19, 20, 23, 24} |->
     CASE i = 0 -> Pt(500, 200, 900)
       [] i = 9 -> Pt(520, 230, 900)
       [] i = 10 -> Pt(480, 230, 900)
       [] i = 11 -> Pt(600, 350, 900)
       [] i = 12 -> Pt(400, 350, 900)
       [] i = 13 -> Pt(650, 500, 900)
       [] i = 14 -> Pt(350, 500, 900)
       [] i = 15 -> Pt(660, 650 + lw, 900)
       [] i = 16 -> Pt(340, 650 + rw, 900)
       [] i = 19 -> Pt(665, 700 + lw, 900)
       [] i = 20 -> Pt(335, 700 + rw, 900)
       [] i = 23 -> Pt(580, 750, 900)
       [] i = 24 -> Pt(420, 750, 900)]

Stand(lw, rw) == [defined |-> TRUE, pts |-> StandPts(lw, rw),
                  leftElbowAngle |-> 170, rightElbowAngle |-> 170]

EmptyLandmarks == [defined |-> TRUE, pts |-> <<>>,
                   leftElbowAngle |-> Degenerate, rightElbowAngle |-> Degenerate]

Restrict(f, S) == [i \in S |-> f[i]]

\* the frame on which the user shows the pose
Showing(p) ==
  CASE p = "monkeythink" ->
         [Stand(0, 0) EXCEPT !.pts[19] = Pt(515, 235, 900)]
    [] p = "khaby" ->
         [Stand(0, 0) EXCEPT !.pts[15] = Pt(660, 450, 900), !.pts[16] = Pt(340, 450, 900),
                             !.leftElbowAngle = 90, !.rightElbowAngle = 90]
    [] p = "mewing" ->
         [Stand(0, 0) EXCEPT !.pts[20] = Pt(505, 295, 900)]
    [] p = "monkeyhappy" ->
         [Stand(0, 0) EXCEPT !.pts[19] = Pt(665, 100, 900)]
    [] p = "dab" ->
         [Stand(0, 0) EXCEPT !.leftElbowAngle = 60]
    [] OTHER -> Stand(0, 0)

PoseFrames(p) ==
  IF p = "67hands"
  THEN {Stand(lw, rw) : lw \in Samples, rw \in Samples}
       \cup {[Stand(0, 0) EXCEPT !.pts = Restrict(StandPts(0, 0), {0, 11, 12, 15})]}
       \cup {NoLandmarks, EmptyLandmarks}
  ELSE {Stand(0, 0), Showing(p), NoLandmarks, EmptyLandmarks}

FacePts(noseX, gap) ==
  [i \in {1, 13, 14, 61, 78, 291, 308, 152, 377} |->
     CASE i = 1 -> Pt(noseX, 200, 1000)
       [] i = 13 -> Pt(500, 235, 1000)
       [] i = 14 -> Pt(500, 235 + gap, 1000)
       [] i = 61 -> Pt(450, 240, 1000)
       [] i = 78 -> Pt(450, 240, 1000)
       [] i = 291 -> Pt(550, 240, 1000)
       [] i = 308 -> Pt(550, 240, 1000)
       [] i = 152 -> Pt(500, 300, 1000)
       [] i = 377 -> Pt(530, 295, 1000)]

Face(noseX, gap) == [defined |-> TRUE, pts |-> FacePts(noseX, gap)]

FaceFrames(p) ==
  IF p = "fanum"
  THEN {Face(nx, gap) : nx \in NoseSamples, gap \in {10, 60}} \cup {NoFace}
  ELSE {Face(400, 10), NoFace}

\* shuffleArray(ALL_CHALLENGES), of which the page embeds the first three
ChallengeTriples ==
  {<<a, b, c>> : a \in Poses, b \in Poses, c \in Poses} \
    {t \in {<<a, b, c>> : a \in Poses, b \in Poses, c \in Poses} :
       t[1] = t[2] \/ t[1] = t[3] \/ t[2] = t[3]}


\* The pages the model runs: the sequencer never compares two entries of
\* IMAGES, so it is run on the triples that are a window of ALL_CHALLENGES
\* taken cyclically, in either direction: every pose at every stage.
Wrap(i) == ((i - 1) % Len(ALL_CHALLENGES)) + 1

PageTriples ==
  {t \in ChallengeTriples :
     \E i \in 1..Len(ALL_CHALLENGES) :
       \/ t = <<ALL_CHALLENGES[Wrap(i)], ALL_CHALLENGES[Wrap(i + 1)],
                ALL_CHALLENGES[Wrap(i + 2)]>>
       \/ t = <<ALL_CHALLENGES[Wrap(i + 2)], ALL_CHALLENGES[Wrap(i + 1)],
                ALL_CHALLENGES[Wrap(i)]>>}

(***************************************************************************)
(* State of one challenge page                                             *)
(***************************************************************************)
VARIABLES
  IMAGES,                 \* the three poses embedded in the page
  imageIndex,
  poseDetectionActive,
  poseConfidenceCounter,
  isTransitioning,
  currentFaceLandmarks,
  leftWristHistory,
  rightWristHistory,
  handYHistory,
  headXHistory,
  camera,                 \* "none", "started", "stopped"
  page,                   \* "loading", "open", "closed"
  cooldownTimer,          \* the 2000 ms timeouts of onPoseResults that are pending
  closeTimer,             \* the 300 ms setTimeout of completeChallenge is pending
  fetchState              \* "idle", "sent", "ok", "notok", "failed"

\* history variables: what happened, recorded beside the program state
VARIABLES
  lastOp,                 \* the handler that ran last
  invoked,                \* the classifier the last frame invoked, or "none"
  lastFrame,              \* what the last handler, if onPoseResults, was given and did
  counterBefore,          \* poseConfidenceCounter before the last frame
  streak,                 \* consecutive matching frames processed last in this stage
  matched,                \* stages that reached the threshold
  classified,             \* a frame was classified since the cursor last moved
  leftLog,                \* every sample pushed since the last clear
  rightLog,
  headLog,
  completeCalls           \* calls of completeChallenge

pageVars == <<IMAGES, imageIndex, poseDetectionActive, poseConfidenceCounter,
              isTransitioning, currentFaceLandmarks, leftWristHistory,
              rightWristHistory, handYHistory, headXHistory, camera, page,
              cooldownTimer, closeTimer, fetchState>>

histVars == <<lastOp, invoked, lastFrame, counterBefore, streak, matched, classified, leftLog, rightLog,
              headLog, completeCalls>>

(***************************************************************************)
(* State of the control server (src/server.ts, module level)               *)
(***************************************************************************)
VARIABLES
  session,                \* 0 for null, else the number of the registered session
  inflight,               \* POST /complete requests whose body is still arriving
  response                \* status answered to the page's fetch, 0 while unanswered

\* history variables of the server
VARIABLES
  registered,             \* calls of setSession so far
  onCompleteCalls,        \* per session, the arguments onComplete was called with
  onErrorCalls,           \* per session, calls of onError
  clientRequests,         \* requests made by clients other than the page
  lastReply,              \* what the last request handler answered
  lastEnd,                \* the body of the request whose 'end' handler ran last
  okReplies,              \* completions answered with success
  overlapped,             \* a completion ended while another body was in flight
  lastRequest,            \* the request whose handler ran last
  rejected,               \* the values of session at which a completion was refused
  replaced                \* the sessions that were active when setSession replaced them

srvVars == <<session, inflight, response>>

srvHist == <<registered, onCompleteCalls, onErrorCalls, clientRequests, lastReply, lastEnd,
             okReplies, overlapped, lastRequest, rejected, replaced>>

(***************************************************************************)
(* The page generator, the wall clock and the classifier bench             *)
(***************************************************************************)
VARIABLES
  allChallenges,          \* the contents of the array ALL_CHALLENGES
  shuffled,               \* what shuffleArray returned to getChallengeHTML, <<>> before
  clock,                  \* seconds since the page was opened
  given,                  \* the input handed to a classifier on the bench
  answer                  \* what the classifier returned, NoAnswer before

benchVars == <<allChallenges, shuffled, clock, given, answer>>

(***************************************************************************)
(* State of the extension (extension.ts) and of the server's socket        *)
(***************************************************************************)
VARIABLES
  server,                 \* "null"; "binding", "listening", "failed", "closing" once created
  documents,              \* per uri, whether the document is open and its text
  lockedFiles,            \* the uris in the map lockedFiles
  sessionFile,            \* per session, its fileUri, "none" without one
  edits                   \* the edits of decryptFile that applyEdit has not settled

\* history variables of the extension
VARIABLES
  starts,                 \* per session, the startServer calls of its challenge
  decryptLog,             \* per uri, how each call of decryptFile ended
  lastCall                \* "startServer" or "stopServer", whichever was called last

extVars == <<server, documents, lockedFiles, sessionFile, edits, starts, decryptLog,
             lastCall>>

envVars == <<benchVars, extVars>>

vars == <<pageVars, histVars, srvVars, srvHist, envVars>>

buffers == <<leftWristHistory, rightWristHistory, handYHistory, headXHistory>>

InitPageState ==
  /\ imageIndex = 0
  /\ poseDetectionActive = FALSE
  /\ poseConfidenceCounter = 0
  /\ isTransitioning = FALSE
  /\ currentFaceLandmarks = NoFace
  /\ leftWristHistory = <<>>
  /\ rightWristHistory = <<>>
  /\ handYHistory = <<>>
  /\ headXHistory = <<>>
  /\ camera = "none"
  /\ page = "loading"
  /\ cooldownTimer = 0
  /\ closeTimer = FALSE
  /\ fetchState = "idle"
  /\ lastOp = "init"
  /\ invoked = "none"
  /\ lastFrame = "none"
  /\ counterBefore = 0
  /\ streak = 0
  /\ matched = {}
  /\ classified = FALSE
  /\ leftLog = <<>>
  /\ rightLog = <<>>
  /\ headLog = <<>>
  /\ completeCalls = 0

InitPage == IMAGES \in PageTriples /\ InitPageState

NoReply == [status |-> 0, body |-> "none"]

NoRequest == [method |-> "none", path |-> <<>>, found |-> FALSE]

InitServer ==
  /\ session = 0
  /\ inflight = <<>>
  /\ response = 0
  /\ registered = 0
  /\ onCompleteCalls = [s \in 1..MaxSessions |-> <<>>]
  /\ onErrorCalls = [s \in 1..MaxSessions |-> 0]
  /\ clientRequests = 0
  /\ lastReply = NoReply
  /\ lastEnd = <<>>
  /\ okReplies = 0
  /\ overlapped = FALSE
  /\ lastRequest = NoRequest
  /\ rejected = {}
  /\ replaced = {}

NoInput == [pose |-> "none"]

NoAnswer == [match |-> FALSE, ran |-> "none"]

\* the files of the workspace and what they hold: 'Hi' and the euro sign
Files == {"a.ts", "b.ts"}

Original(uri) == IF uri = "a.ts" THEN <<72, 105>> ELSE <<8364>>

\* no document is open, no file is locked, startServer was never called
InitFiles ==
  /\ documents = [uri \in Files |-> [open |-> FALSE, content |-> Original(uri)]]
  /\ lockedFiles = {}
  /\ sessionFile = [s \in 1..MaxSessions |-> "none"]
  /\ edits = <<>>
  /\ starts = [s \in 1..MaxSessions |-> <<>>]
  /\ decryptLog = [uri \in Files |-> <<>>]
  /\ lastCall = "none"

InitExtension == server = "null" /\ InitFiles

\* the server that serves the page and takes the requests is listening
InitServing == server = "listening" /\ InitFiles

InitEnv ==
  /\ allChallenges = ALL_CHALLENGES
  /\ shuffled = <<>>
  /\ clock = 0
  /\ given = NoInput
  /\ answer = NoAnswer
  /\ InitServing

Init == InitPage /\ InitServer /\ InitEnv

\* the last n elements of s
LastN(s, n) == IF Len(s) <= n THEN s ELSE SubSeq(s, Len(s) - n + 1, Len(s))

\* a faulty threshold branch: detection is not blocked
blockedAfterThresholdNot(transitioning) == transitioning

\* isTransitioning = true: block further detection during the transition
blockedAfterThreshold(transitioning) == TRUE

\* window 'load': initPoseDetection(); ok is whether the webcam and the
\* estimators came up
initPoseDetection(ok) ==
  /\ page = "loading"
  /\ page' = "open"
  /\ IF ok THEN camera' = "started" /\ poseDetectionActive' = TRUE
           ELSE camera' = camera /\ poseDetectionActive' = FALSE
  /\ UNCHANGED <<srvVars, srvHist, envVars>>
  /\ lastOp' = "load"
  /\ UNCHANGED <<IMAGES, imageIndex, poseConfidenceCounter, isTransitioning,
                 currentFaceLandmarks, buffers, cooldownTimer, closeTimer, fetchState>>
  /\ lastFrame' = "none"
  /\ UNCHANGED <<invoked, counterBefore, streak, matched, classified, leftLog, rightLog, headLog,
                 completeCalls>>

\* faceMesh.onResults
onFaceResults(face) ==
  /\ page = "open" /\ camera = "started"
  /\ currentFaceLandmarks' = face
  /\ UNCHANGED <<srvVars, srvHist, envVars>>
  /\ lastOp' = "face"
  /\ UNCHANGED <<IMAGES, imageIndex, poseDetectionActive, poseConfidenceCounter,
                 isTransitioning, buffers, camera, page, cooldownTimer, closeTimer,
                 fetchState>>
  /\ lastFrame' = "none"
  /\ UNCHANGED <<invoked, counterBefore, streak, matched, classified, leftLog, rightLog, headLog,
                 completeCalls>>

onPoseResults(lm) ==
  /\ page = "open" /\ camera = "started"
  /\ UNCHANGED <<srvVars, srvHist, envVars>>
  /\ lastOp' = "frame"
  /\ counterBefore' = poseConfidenceCounter
  /\ UNCHANGED <<IMAGES, imageIndex, currentFaceLandmarks, handYHistory, camera, page,
                 closeTimer, fetchState, completeCalls>>
  /\ IF skipsFrame(poseDetectionActive, isTransitioning)
     THEN /\ invoked' = "none"
          /\ lastFrame' = IF lm.defined /\ DOMAIN lm.pts # {}
                          THEN "skippedPresent" ELSE "skippedAbsent"
          /\ UNCHANGED <<poseDetectionActive, poseConfidenceCounter, isTransitioning,
                         leftWristHistory, rightWristHistory, headXHistory,
                         cooldownTimer, streak, matched, classified, leftLog,
                         rightLog, headLog>>
     ELSE IF lm.defined /\ DOMAIN lm.pts # {}
     THEN LET requiredPose == requiredPoseAt(IMAGES, imageIndex)
              r == checkCurrentPose(requiredPose, lm, currentFaceLandmarks,
                                    leftWristHistory, rightWristHistory, headXHistory)
              counter == poseConfidenceCounter + 1
          IN /\ invoked' = r.ran
             /\ lastFrame' = IF r.match THEN "match" ELSE "nomatch"
             /\ classified' = TRUE
             /\ streak' = IF r.match THEN streak + 1 ELSE 0
             /\ leftWristHistory' = r.left
             /\ rightWristHistory' = r.right
             /\ headXHistory' = r.head
             /\ leftLog' = IF r.ran = "check67Hands" /\ r.pushed
                           THEN Append(leftLog, lm.pts[15].y) ELSE leftLog
             /\ rightLog' = IF r.ran = "check67Hands" /\ r.pushed
                            THEN Append(rightLog, lm.pts[16].y) ELSE rightLog
             /\ headLog' = IF r.ran = "checkFanumTax" /\ r.pushed
                           THEN Append(headLog, currentFaceLandmarks.pts[1].x) ELSE headLog
             /\ UNCHANGED poseDetectionActive
             /\ IF r.match
                THEN /\ poseConfidenceCounter' = counter
                     /\ IF reachedThreshold(counter)
                        THEN /\ isTransitioning' = blockedAfterThreshold(isTransitioning)
                             /\ cooldownTimer' = cooldownTimer + 1
                             /\ matched' = matched \cup {imageIndex}
                        ELSE UNCHANGED <<isTransitioning, cooldownTimer, matched>>
                ELSE /\ poseConfidenceCounter' = counterAfterMiss(poseConfidenceCounter)
                     /\ UNCHANGED <<isTransitioning, cooldownTimer, matched>>
     ELSE /\ poseConfidenceCounter' = counterAfterMiss(poseConfidenceCounter)
          /\ invoked' = "none"
          /\ lastFrame' = "absent"
          /\ streak' = 0
          /\ UNCHANGED <<poseDetectionActive, isTransitioning, leftWristHistory,
                         rightWristHistory, headXHistory, cooldownTimer, matched,
                         classified, leftLog, rightLog, headLog>>

(***************************************************************************)
(* Request bodies are token strings; JSON.parse accepts the grammar        *)
(*   value ::= "t" | "{" "}" | "{" "k" value "}"                           *)
(* ("k" is a key with its colon, "t" a literal, "x" anything else).        *)
(***************************************************************************)
RECURSIVE parseValue(_, _)
parseValue(b, i) ==
  IF i > Len(b) THEN 0
  ELSE IF b[i] = "t" THEN i + 1
  ELSE IF b[i] = "{" /\ i + 1 <= Len(b) /\ b[i + 1] = "}" THEN i + 2
  ELSE IF b[i] = "{" /\ i + 1 <= Len(b) /\ b[i + 1] = "k"
  THEN LET j == parseValue(b, i + 2)
       IN IF j # 0 /\ j <= Len(b) /\ b[j] = "}" THEN j + 1 ELSE 0
  ELSE 0

\* JSON.parse(body) returns instead of throwing
JSONparse(b) == parseValue(b, 1) = Len(b) + 1

\* JSON.stringify({ completed: true, timestamp: Date.now() })
PageBody == <<"{", "k", "t", "}">>

ClientBodies == {<<"{", "}">>, <<"t">>, <<"x">>, <<"{">>, <<>>}

Methods == {"GET", "POST", "OPTIONS"}

Paths == {<<>>, <<"complete">>, <<"health">>, <<"assets", "dab.jpg">>, <<"other">>}

Reply(st, what) == [status |-> st, body |-> what]

\* a faulty clear: the head history survives
clearMotionHistoryKeepHead ==
  /\ leftWristHistory' = <<>>
  /\ rightWristHistory' = <<>>
  /\ handYHistory' = <<>>
  /\ headXHistory' = headXHistory
  /\ currentFaceLandmarks' = NoFace

\* clearMotionHistory
clearMotionHistory ==
  /\ leftWristHistory' = <<>>
  /\ rightWristHistory' = <<>>
  /\ handYHistory' = <<>>
  /\ headXHistory' = <<>>
  /\ currentFaceLandmarks' = NoFace

\* advanceToNextImage; its index-2 branch runs completeChallenge up to the fetch
advanceToNextImage ==
  IF imageIndex < LAST_IMAGE
  THEN /\ imageIndex' = imageIndex + 1
       /\ UNCHANGED <<poseDetectionActive, fetchState, completeCalls, inflight>>
  ELSE IF imageIndex = LAST_IMAGE
  THEN /\ UNCHANGED imageIndex
       /\ poseDetectionActive' = FALSE
       /\ fetchState' = "sent"
       /\ completeCalls' = completeCalls + 1
       /\ inflight' = Append(inflight, [src |-> "page", method |-> "POST", path |-> <<"complete">>,
                                    body |-> <<>>, todo |-> PageBody])
  ELSE UNCHANGED <<imageIndex, poseDetectionActive, fetchState, completeCalls, inflight>>

\* a faulty callback: the counter is left at the threshold
counterAfterCooldownKept(counter) == counter

\* poseConfidenceCounter = 0 in the callback of the 2000 ms timer
counterAfterCooldown(counter) == 0

\* the callback of the 2000 ms timer set by onPoseResults
cooldownElapsed ==
  /\ page = "open" /\ cooldownTimer > 0
  /\ cooldownTimer' = cooldownTimer - 1
  /\ advanceToNextImage
  /\ poseConfidenceCounter' = counterAfterCooldown(poseConfidenceCounter)
  /\ clearMotionHistory
  /\ isTransitioning' = FALSE
  /\ lastOp' = "timer"
  /\ invoked' = "none"
  /\ lastFrame' = "none"
  /\ UNCHANGED counterBefore
  /\ streak' = 0
  /\ classified' = (imageIndex' = imageIndex /\ classified)
  /\ leftLog' = <<>>
  /\ rightLog' = <<>>
  /\ headLog' = <<>>
  /\ UNCHANGED <<IMAGES, camera, page, closeTimer, matched>>
  /\ UNCHANGED <<session, response, srvHist, envVars>>

\* the fetch of completeChallenge settles: response.ok, a response that is
\* not ok, or a rejection
fetchSettles(outcome) ==
  /\ page = "open" /\ fetchState = "sent"
  /\ fetchState' = outcome
  /\ closeTimer' = (outcome = "ok")
  /\ UNCHANGED <<srvVars, srvHist, envVars>>
  /\ lastOp' = "fetch"
  /\ UNCHANGED <<IMAGES, imageIndex, poseDetectionActive, poseConfidenceCounter,
                 isTransitioning, currentFaceLandmarks, buffers, camera, page,
                 cooldownTimer>>
  /\ lastFrame' = "none"
  /\ UNCHANGED <<invoked, counterBefore, streak, matched, classified, leftLog, rightLog, headLog,
                 completeCalls>>

\* the callback of the 300 ms timer: stop the tracks and the camera, window.close()
closeElapsed ==
  /\ page = "open" /\ closeTimer
  /\ closeTimer' = FALSE
  /\ camera' = IF camera = "started" THEN "stopped" ELSE camera
  /\ page' = "closed"
  /\ UNCHANGED <<srvVars, srvHist, envVars>>
  /\ lastOp' = "close"
  /\ UNCHANGED <<IMAGES, imageIndex, poseDetectionActive, poseConfidenceCounter,
                 isTransitioning, currentFaceLandmarks, buffers, cooldownTimer,
                 fetchState>>
  /\ lastFrame' = "none"
  /\ UNCHANGED <<invoked, counterBefore, streak, matched, classified, leftLog, rightLog, headLog,
                 completeCalls>>

\* a faulty unload: the page reports completion as it leaves
signalOnUnloadSends(q) ==
  Append(q, [src |-> "page", method |-> "POST", path |-> <<"complete">>,
             body |-> <<>>, todo |-> PageBody])

\* the requests in flight after 'beforeunload', which sends none
signalOnUnload(q) == q

\* window 'beforeunload': the user leaves the page; its timers die with it
beforeUnload ==
  /\ page = "open"
  /\ poseDetectionActive' = FALSE
  /\ camera' = IF camera = "started" THEN "stopped" ELSE camera
  /\ page' = "closed"
  /\ inflight' = signalOnUnload(inflight)
  /\ UNCHANGED <<session, response, srvHist, envVars>>
  /\ lastOp' = "unload"
  /\ UNCHANGED <<IMAGES, imageIndex, poseConfidenceCounter, isTransitioning,
                 currentFaceLandmarks, buffers, cooldownTimer, closeTimer, fetchState>>
  /\ lastFrame' = "none"
  /\ UNCHANGED <<invoked, counterBefore, streak, matched, classified, leftLog, rightLog, headLog,
                 completeCalls>>

(***************************************************************************)
(* The content transform (src/encryption.ts).  A string is the sequence of *)
(* its UTF-16 code units, null the sequence <<-1>>.                        *)
(***************************************************************************)
null == <<Degenerate>>

\* 'vshater_encryption_key_42'
ENCRYPTION_KEY ==
  <<118, 115, 104, 97, 116, 101, 114, 95, 101, 110, 99, 114, 121, 112, 116, 105,
    111, 110, 95, 107, 101, 121, 95, 52, 50>>

\* the lock emoji (a surrogate pair), VSHATER_ENCRYPTED, the lock emoji
marker ==
  <<55357, 56594, 86, 83, 72, 65, 84, 69, 82, 95, 69, 78, 67, 82, 89, 80, 84, 69,
    68, 55357, 56594>>

\* a ^ b
RECURSIVE bitXor(_, _)
bitXor(a, b) ==
  IF a = 0 /\ b = 0 THEN 0
  ELSE (((a % 2) + (b % 2)) % 2) + (2 * bitXor(a \div 2, b \div 2))

\* String.fromCharCode(text.charCodeAt(i) ^ key.charCodeAt(i % key.length))
xorEncrypt(text, key) ==
  [i \in 1..Len(text) |-> bitXor(text[i], key[((i - 1) % Len(key)) + 1])]

xorDecrypt(text, key) == xorEncrypt(text, key)

\* Buffer.from(str, 'binary'): one byte per code unit, its low eight bits
bufferFromBinary(str) == [i \in 1..Len(str) |-> str[i] % 256]

\* the character of a base64 digit
base64Char(v) ==
  IF v < 26 THEN 65 + v
  ELSE IF v < 52 THEN 97 + (v - 26)
  ELSE IF v < 62 THEN 48 + (v - 52)
  ELSE IF v = 62 THEN 43 ELSE 47

base64Chars == {base64Char(v) : v \in 0..63}

base64Digit(c) == CHOOSE v \in 0..63 : base64Char(v) = c

\* buf.toString('base64'): three bytes make four digits, '=' pads the rest
RECURSIVE toBase64(_)
toBase64(bytes) ==
  IF Len(bytes) = 0 THEN <<>>
  ELSE IF Len(bytes) = 1
  THEN <<base64Char(bytes[1] \div 4), base64Char((bytes[1] % 4) * 16), 61, 61>>
  ELSE IF Len(bytes) = 2
  THEN <<base64Char(bytes[1] \div 4),
         base64Char(((bytes[1] % 4) * 16) + (bytes[2] \div 16)),
         base64Char((bytes[2] % 16) * 4), 61>>
  ELSE <<base64Char(bytes[1] \div 4),
         base64Char(((bytes[1] % 4) * 16) + (bytes[2] \div 16)),
         base64Char(((bytes[2] % 16) * 4) + (bytes[3] \div 64)),
         base64Char(bytes[3] % 64)>> \o toBase64(SubSeq(bytes, 4, Len(bytes)))

\* the digits of a base64 string: decoding stops at '=' and skips every
\* character that is not a digit
RECURSIVE base64Digits(_)
base64Digits(str) ==
  IF Len(str) = 0 \/ str[1] = 61 THEN <<>>
  ELSE IF str[1] \in base64Chars THEN <<base64Digit(str[1])>> \o base64Digits(Tail(str))
  ELSE base64Digits(Tail(str))

RECURSIVE bytesOf(_)
bytesOf(d) ==
  IF Len(d) < 2 THEN <<>>
  ELSE IF Len(d) = 2 THEN <<(d[1] * 4) + (d[2] \div 16)>>
  ELSE IF Len(d) = 3 THEN <<(d[1] * 4) + (d[2] \div 16), ((d[2] % 16) * 16) + (d[3] \div 4)>>
  ELSE <<(d[1] * 4) + (d[2] \div 16), ((d[2] % 16) * 16) + (d[3] \div 4),
         ((d[3] % 4) * 64) + d[4]>> \o bytesOf(SubSeq(d, 5, Len(d)))

\* Buffer.from(str, 'base64').toString('binary')
fromBase64(str) == bytesOf(base64Digits(str))

startsWith(str, prefix) ==
  Len(str) >= Len(prefix) /\ SubSeq(str, 1, Len(prefix)) = prefix

isEncrypted(content) == startsWith(content, marker)

encryptContent(content) ==
  marker \o toBase64(bufferFromBinary(xorEncrypt(content, ENCRYPTION_KEY)))

decryptContent(content) ==
  IF ~startsWith(content, marker) THEN null
  ELSE xorDecrypt(fromBase64(SubSeq(content, Len(marker) + 1, Len(content))),
                  ENCRYPTION_KEY)

(***************************************************************************)
(* The control server                                                      *)
(***************************************************************************)
pageStill ==
  /\ UNCHANGED pageVars
  /\ lastFrame' = "none"
  /\ UNCHANGED <<invoked, counterBefore, streak, matched, classified, leftLog, rightLog,
                 headLog, completeCalls>>

pageFrozen == pageStill /\ UNCHANGED envVars

\* a faulty assignment: an active session is not replaced
sessionAfterSetKeepsActive(sess, new) == IF sess # 0 THEN sess ELSE new

\* session = challengeSession
sessionAfterSet(sess, new) == new

\* setSession(challengeSession)
setSession ==
  /\ registered < MaxSessions
  /\ registered' = registered + 1
  /\ session' = sessionAfterSet(session, registered + 1)
  /\ pageFrozen
  /\ lastOp' = "setSession"
  /\ replaced' = IF session # 0 THEN replaced \cup {session} ELSE replaced
  /\ UNCHANGED <<inflight, response, onCompleteCalls, onErrorCalls, clientRequests,
                 lastReply, lastEnd, okReplies, overlapped, lastRequest, rejected>>

\* clearSession()
clearSession ==
  /\ session' = 0
  /\ pageFrozen
  /\ lastOp' = "clearSession"
  /\ UNCHANGED <<inflight, response, srvHist>>

\* pathname.startsWith('/assets/')
isAssetPath(path) == Len(path) >= 2 /\ path[1] = "assets"

\* a faulty route: the method is not looked at
isCompleteRouteAnyMethod(method, path) == path = <<"complete">>

\* pathname === '/complete' && req.method === 'POST'
isCompleteRoute(method, path) == path = <<"complete">> /\ method = "POST"

\* the request listener, for a request of a client other than the page;
\* found: one of the candidate asset paths is a file
request(method, path, found, body) ==
  /\ server = "listening"
  /\ clientRequests < MaxRequests
  /\ clientRequests' = clientRequests + 1
  /\ pageFrozen
  /\ lastOp' = "request"
  /\ lastRequest' = [method |-> method, path |-> path,
                     found |-> isAssetPath(path) /\ found]
  /\ UNCHANGED <<session, response, registered, onCompleteCalls, onErrorCalls,
                 lastEnd, okReplies, overlapped, rejected, replaced>>
  /\ IF method = "OPTIONS"
     THEN lastReply' = Reply(200, "empty") /\ UNCHANGED inflight
     ELSE IF isAssetPath(path) /\ found
     THEN lastReply' = Reply(200, "asset") /\ UNCHANGED inflight
     ELSE IF path = <<>> /\ method = "GET"
     THEN lastReply' = Reply(200, "html") /\ UNCHANGED inflight
     ELSE IF isCompleteRoute(method, path)
     THEN /\ inflight' = Append(inflight, [src |-> "client", method |-> method,
                                           path |-> path, body |-> <<>>, todo |-> body])
          /\ UNCHANGED lastReply
     ELSE IF path = <<"health">> /\ method = "GET"
     THEN lastReply' = Reply(200, "health") /\ UNCHANGED inflight
     ELSE lastReply' = Reply(404, "notfound") /\ UNCHANGED inflight

\* req.on('data'): the next n tokens of the body arrive
onData(i, n) ==
  /\ i \in 1..Len(inflight)
  /\ n \in 1..Len(inflight[i].todo)
  /\ inflight' = [inflight EXCEPT ![i].body = @ \o SubSeq(inflight[i].todo, 1, n),
                                  ![i].todo = SubSeq(@, n + 1, Len(@))]
  /\ pageFrozen
  /\ lastOp' = "data"
  /\ UNCHANGED <<session, response, srvHist>>

Remove(q, i) == SubSeq(q, 1, i - 1) \o SubSeq(q, i + 1, Len(q))

\* a faulty completion: the session is not cleared
sessionKept(sess) == sess

\* session = null, after onComplete was called
sessionAfterComplete(sess) == 0

\* a faulty refusal: the session is dropped with the bad request
sessionDropped(sess) == 0

\* the catch branch leaves the session alone
sessionAfterReject(sess) == sess

\* a faulty answer: success only when a session is there to resolve
completionStatusNeedsSession(parsed, sess) == IF parsed /\ sess # 0 THEN 200 ELSE 400

\* writeHead(200) after JSON.parse returned, writeHead(400) in the catch
completionStatus(parsed, sess) == IF parsed THEN 200 ELSE 400

\* a faulty test: whatever decryptContent returns is written to the file
decryptionFailsNever(decrypted) == FALSE

\* if (!decrypted): null, or the empty string
decryptionFails(decrypted) == decrypted = null \/ decrypted = <<>>

\* decryptFile(fileUri), up to its await of applyEdit
decryptFile(uri) ==
  /\ UNCHANGED <<server, documents, lockedFiles, sessionFile, starts, lastCall>>
  /\ IF ~documents[uri].open
     THEN /\ decryptLog' = [decryptLog EXCEPT ![uri] = Append(@, "notFound")]
          /\ UNCHANGED edits
     ELSE IF decryptionFails(decryptContent(documents[uri].content))
     THEN /\ decryptLog' = [decryptLog EXCEPT ![uri] = Append(@, "notDecryptable")]
          /\ UNCHANGED edits
     ELSE /\ edits' = Append(edits, [uri |-> uri,
                                     text |-> decryptContent(documents[uri].content)])
          /\ UNCHANGED decryptLog

\* session.onComplete(success): the callback startPoseChallenge stored, or
\* that of another caller of setSession, which touches no file
onComplete(sess, success) ==
  IF success /\ sessionFile[sess] # "none"
  THEN decryptFile(sessionFile[sess])
  ELSE UNCHANGED extVars

\* req.on('end')
onEnd(i) ==
  /\ i \in 1..Len(inflight)
  /\ inflight[i].todo = <<>>
  /\ inflight' = Remove(inflight, i)
  /\ overlapped' = (overlapped \/ \E j \in 1..Len(inflight) : j # i /\ inflight[j].body # <<>>)
  /\ pageStill
  /\ UNCHANGED benchVars
  /\ lastOp' = "end"
  /\ lastEnd' = inflight[i].body
  /\ lastRequest' = [method |-> inflight[i].method, path |-> inflight[i].path,
                     found |-> FALSE]
  /\ UNCHANGED <<registered, onErrorCalls, clientRequests, replaced>>
  /\ LET parsed == JSONparse(inflight[i].body)
         status == completionStatus(parsed, session)
     IN /\ lastReply' = Reply(status, IF status = 200 THEN "success" ELSE "invalid")
        /\ response' = IF inflight[i].src = "page" THEN status ELSE response
        /\ okReplies' = IF status = 200 THEN okReplies + 1 ELSE okReplies
        /\ IF parsed
           THEN /\ UNCHANGED rejected
                /\ IF session # 0
                   THEN /\ onCompleteCalls' =
                             [onCompleteCalls EXCEPT ![session] = Append(@, TRUE)]
                        /\ onComplete(session, TRUE)
                        /\ session' = sessionAfterComplete(session)
                   ELSE UNCHANGED <<onCompleteCalls, session, extVars>>
           ELSE /\ rejected' = rejected \cup {session}
                /\ session' = sessionAfterReject(session)
                /\ UNCHANGED <<onCompleteCalls, extVars>>

\* the page's fetch resolves with the server's answer
fetchResolves ==
  /\ response # 0
  /\ fetchSettles(IF response = 200 THEN "ok" ELSE "notok")

\* the frames the model feeds: each tracked point moves with a period of two
\* frames, and a stage takes at most MaxPushes samples
TwoBack(hist, v) == IF Len(hist) < 2 THEN TRUE ELSE hist[Len(hist) - 1] = v

Fed(lm) ==
  LET requiredPose == IMAGES[imageIndex + 1]
  IN /\ (requiredPose = "67hands" /\ Has(lm, 15) /\ Has(lm, 16)) =>
          /\ Len(leftLog) < MaxPushes
          /\ TwoBack(leftWristHistory, lm.pts[15].y)
          /\ TwoBack(rightWristHistory, lm.pts[16].y)
     /\ (requiredPose = "fanum" /\ Has(currentFaceLandmarks, 1)) =>
          /\ Len(headLog) < MaxPushes
          /\ TwoBack(headXHistory, currentFaceLandmarks.pts[1].x)

NextPage ==
  \/ \E ok \in BOOLEAN : initPoseDetection(ok)
  \/ \E face \in FaceFrames(IMAGES[imageIndex + 1]) : onFaceResults(face)
  \/ \E lm \in PoseFrames(IMAGES[imageIndex + 1]) : Fed(lm) /\ onPoseResults(lm)
  \/ cooldownElapsed
  \/ \E outcome \in {"ok", "notok", "failed"} : fetchSettles(outcome)
  \/ closeElapsed
  \/ beforeUnload

SpecPage == Init /\ [][NextPage]_vars


NextServer ==
  \/ setSession
  \/ clearSession
  \/ \E method \in Methods, path \in Paths, found \in BOOLEAN, body \in ClientBodies :
       request(method, path, found, body)
  \/ \E i \in 1..Len(inflight), n \in 1..4 : onData(i, n)
  \/ \E i \in 1..Len(inflight) : onEnd(i)

\* the page of the server runs and of the composed system shows three
\* static poses
InitStatic == Init /\ IMAGES = <<"monkeythink", "khaby", "mewing">>

SpecServer == InitStatic /\ [][NextServer]_vars

Next ==
  \/ \E ok \in BOOLEAN : initPoseDetection(ok)
  \/ \E face \in FaceFrames(IMAGES[imageIndex + 1]) : onFaceResults(face)
  \/ \E lm \in PoseFrames(IMAGES[imageIndex + 1]) : Fed(lm) /\ onPoseResults(lm)
  \/ cooldownElapsed
  \/ fetchResolves
  \/ closeElapsed
  \/ beforeUnload
  \/ setSession
  \/ \E body \in ClientBodies :
       clientRequests < MaxForeign /\ request("POST", <<"complete">>, FALSE, body)
  \/ \E i \in 1..Len(inflight), n \in 1..4 : onData(i, n)
  \/ \E i \in 1..Len(inflight) : onEnd(i)

Spec == InitStatic /\ [][Next]_vars

\* twenty seconds pass while the page is open
tick ==
  /\ page = "open" /\ clock < MaxClock
  /\ clock' = clock + 20
  /\ lastOp' = "tick"
  /\ lastFrame' = "none"
  /\ UNCHANGED <<pageVars, srvVars, srvHist>>
  /\ UNCHANGED <<invoked, counterBefore, streak, matched, classified, leftLog, rightLog,
                 headLog, completeCalls>>
  /\ UNCHANGED <<allChallenges, shuffled, given, answer, extVars>>

\* the page, the server it reports to and the passing of time; no other
\* client
NextTimed ==
  \/ \E ok \in BOOLEAN : initPoseDetection(ok)
  \/ \E face \in FaceFrames(IMAGES[imageIndex + 1]) : onFaceResults(face)
  \/ \E lm \in PoseFrames(IMAGES[imageIndex + 1]) : Fed(lm) /\ onPoseResults(lm)
  \/ cooldownElapsed
  \/ fetchResolves
  \/ closeElapsed
  \/ beforeUnload
  \/ setSession
  \/ \E i \in 1..Len(inflight), n \in 1..4 : onData(i, n)
  \/ \E i \in 1..Len(inflight) : onEnd(i)
  \/ tick

SpecTimed == InitStatic /\ [][NextTimed]_vars

(***************************************************************************)
(* The extension: files are locked when they are opened, and unlocked by   *)
(* the completion of the challenge                                         *)
(***************************************************************************)
\* content.trim().length === 0
trimmedEmpty(content) ==
  \A i \in 1..Len(content) :
     content[i] \in {9, 10, 11, 12, 13, 32, 160, 5760, 8232, 8233, 8239, 8287,
                     12288, 65279} \cup 8192..8202

\* if (server) { resolve(PORT); return; }
resolvesAtOnce(srv) == srv # "null"

\* startPoseChallenge(fileUri, fileName): setSession, then startServer up to
\* its first return
startPoseChallenge(uri) ==
  LET s == registered + 1
  IN /\ registered' = s
     /\ session' = sessionAfterSet(session, s)
     /\ replaced' = IF session # 0 THEN replaced \cup {session} ELSE replaced
     /\ sessionFile' = [sessionFile EXCEPT ![s] = uri]
     /\ lastCall' = "startServer"
     /\ IF resolvesAtOnce(server)
        THEN /\ starts' = [starts EXCEPT ![s] =
                             Append(@, [state |-> "resolved",
                                        listening |-> server = "listening"])]
             /\ UNCHANGED server
        ELSE /\ server' = "binding"
             /\ starts' = [starts EXCEPT ![s] =
                             Append(@, [state |-> "pending", listening |-> FALSE])]

\* document.uri.scheme
scheme(uri) == IF uri = "untitled:Untitled-1" THEN "untitled" ELSE "file"

\* document.uri.fsPath, in code units: the file's path under the folder /w
fsPath(uri) ==
  CASE uri = "a.ts" -> <<47, 119, 47, 97, 46, 116, 115>>
    [] uri = "b.ts" -> <<47, 119, 47, 98, 46, 116, 115>>
    [] uri = "dist/c.js" -> <<47, 119, 47, 100, 105, 115, 116, 47, 99, 46, 106, 115>>
    [] uri = "rebuild.ts" -> <<47, 119, 47, 114, 101, 98, 117, 105, 108, 100, 46, 116, 115>>
    [] uri = "blank.ts" -> <<47, 119, 47, 98, 108, 97, 110, 107, 46, 116, 115>>
    [] uri = "big.ts" -> <<47, 119, 47, 98, 105, 103, 46, 116, 115>>
    [] uri = "enc.ts" -> <<47, 119, 47, 101, 110, 99, 46, 116, 115>>
    [] OTHER -> <<85, 110, 116, 105, 116, 108, 101, 100, 45, 49>>

\* 'node_modules', '.git', 'dist', 'build', '.vscode', 'package.json',
\* 'package-lock.json'
skipPatterns ==
  {<<110, 111, 100, 101, 95, 109, 111, 100, 117, 108, 101, 115>>,
   <<46, 103, 105, 116>>,
   <<100, 105, 115, 116>>,
   <<98, 117, 105, 108, 100>>,
   <<46, 118, 115, 99, 111, 100, 101>>,
   <<112, 97, 99, 107, 97, 103, 101, 46, 106, 115, 111, 110>>,
   <<112, 97, 99, 107, 97, 103, 101, 45, 108, 111, 99, 107, 46, 106, 115, 111, 110>>}

\* String.prototype.includes
includes(str, sub) ==
  \E i \in 0..(Len(str) - Len(sub)) : SubSeq(str, i + 1, i + Len(sub)) = sub

\* content.length > 1000000
tooLarge(content) == Len(content) > 1000000

\* a faulty test: the text is not looked at for the marker
skipsDocumentUnlessMarked(uri, content) ==
  \/ scheme(uri) # "file"
  \/ \E pattern \in skipPatterns : includes(fsPath(uri), pattern)
  \/ trimmedEmpty(content)
  \/ tooLarge(content)

\* the five early returns of handleFileOpen
skipsDocument(uri, content) ==
  \/ scheme(uri) # "file"
  \/ \E pattern \in skipPatterns : includes(fsPath(uri), pattern)
  \/ isEncrypted(content)
  \/ trimmedEmpty(content)
  \/ tooLarge(content)

\* onDidOpenTextDocument -> handleFileOpen(document); applied: applyEdit put
\* the encrypted text into the document
handleFileOpen(uri, applied) ==
  /\ ~documents[uri].open
  /\ pageStill
  /\ UNCHANGED benchVars
  /\ lastOp' = "open"
  /\ UNCHANGED <<inflight, response, onCompleteCalls, onErrorCalls, clientRequests,
                 lastReply, lastEnd, okReplies, overlapped, lastRequest, rejected>>
  /\ UNCHANGED <<edits, decryptLog>>
  /\ LET content == documents[uri].content
     IN IF skipsDocument(uri, content)
        THEN /\ documents' = [documents EXCEPT ![uri].open = TRUE]
             /\ UNCHANGED <<session, registered, replaced, server, lockedFiles,
                            sessionFile, starts, lastCall>>
        ELSE /\ registered < MaxSessions
             /\ lockedFiles' = lockedFiles \cup {uri}
             /\ documents' = [documents EXCEPT ![uri] =
                                [open |-> TRUE,
                                 content |-> IF applied THEN encryptContent(content)
                                                        ELSE content]]
             /\ startPoseChallenge(uri)

\* the pending startServer call settles
settled(calls, how, up) ==
  [i \in 1..Len(calls) |->
     IF calls[i].state = "pending" THEN [state |-> how, listening |-> up] ELSE calls[i]]

extensionStep ==
  /\ pageStill
  /\ UNCHANGED benchVars
  /\ UNCHANGED <<srvVars, srvHist>>

\* the callback of server.listen: resolve(PORT)
listenCallback ==
  /\ server = "binding"
  /\ server' = "listening"
  /\ starts' = [s \in DOMAIN starts |-> settled(starts[s], "resolved", TRUE)]
  /\ extensionStep
  /\ lastOp' = "listening"
  /\ UNCHANGED <<documents, lockedFiles, sessionFile, edits, decryptLog, lastCall>>

\* a faulty handler: the server tries to listen again
afterListenErrorListensAgain(srv) == "binding"

\* the variable server keeps the http.Server that could not listen
afterListenError(srv) == "failed"

\* server.on('error'): the port cannot be bound; reject(err), which
\* startPoseChallenge catches to show a message
serverError ==
  /\ server = "binding"
  /\ server' = afterListenError(server)
  /\ starts' = [s \in DOMAIN starts |-> settled(starts[s], "rejected", FALSE)]
  /\ extensionStep
  /\ lastOp' = "error"
  /\ UNCHANGED <<documents, lockedFiles, sessionFile, edits, decryptLog, lastCall>>

\* a faulty unlock: the uri is left in the map
lockedAfterUnlockKept(locked, uri) == locked

\* lockedFiles.delete(fileUri)
lockedAfterUnlock(locked, uri) == locked \ {uri}

\* applyEdit of decryptFile settles, and decryptFile runs to its end
applyEditSettles(ok) ==
  /\ edits # <<>>
  /\ edits' = Tail(edits)
  /\ LET uri == Head(edits).uri
     IN IF ok
        THEN /\ documents' = [documents EXCEPT ![uri].content = Head(edits).text]
             /\ lockedFiles' = lockedAfterUnlock(lockedFiles, uri)
             /\ decryptLog' = [decryptLog EXCEPT ![uri] = Append(@, "unlocked")]
        ELSE /\ decryptLog' = [decryptLog EXCEPT ![uri] = Append(@, "notApplied")]
             /\ UNCHANGED <<documents, lockedFiles>>
  /\ extensionStep
  /\ lastOp' = "applyEdit"
  /\ UNCHANGED <<server, sessionFile, starts, lastCall>>

\* the user closes the document, keeping its text
closeDocument(uri) ==
  /\ documents[uri].open
  /\ documents' = [documents EXCEPT ![uri].open = FALSE]
  /\ extensionStep
  /\ lastOp' = "closeDocument"
  /\ UNCHANGED <<server, lockedFiles, sessionFile, edits, starts, decryptLog, lastCall>>

\* the user types a letter at the top of a locked document
userEdits(uri) ==
  /\ documents[uri].open /\ isEncrypted(documents[uri].content)
  /\ documents' = [documents EXCEPT ![uri].content = <<88>> \o @]
  /\ extensionStep
  /\ lastOp' = "userEdits"
  /\ UNCHANGED <<server, lockedFiles, sessionFile, edits, starts, decryptLog, lastCall>>

\* nothing is open, the server was never started; the page, once served,
\* shows three static poses
InitLocked ==
  /\ IMAGES = <<"monkeythink", "khaby", "mewing">> /\ InitPageState /\ InitServer
  /\ allChallenges = ALL_CHALLENGES /\ shuffled = <<>> /\ clock = 0
  /\ given = NoInput /\ answer = NoAnswer
  /\ InitExtension

\* req.on('data') for a body that arrives in one chunk
dataArrives == \E i \in 1..Len(inflight) : onData(i, Len(inflight[i].todo))

\* the extension, the server and clients that send completion signals
NextExtension ==
  \/ \E uri \in Files, applied \in BOOLEAN : handleFileOpen(uri, applied)
  \/ listenCallback
  \/ serverError
  \/ \E body \in {<<"{", "}">>, <<"x">>} : request("POST", <<"complete">>, FALSE, body)
  \/ dataArrives
  \/ \E i \in 1..Len(inflight) : onEnd(i)
  \/ \E ok \in BOOLEAN : applyEditSettles(ok)
  \/ closeDocument("a.ts")
  \/ userEdits("a.ts")

SpecExtension == InitLocked /\ [][NextExtension]_vars

\* the browser shows the page: openExternal was called and the server answers
pageServed ==
  /\ server = "listening"
  /\ \E s \in DOMAIN starts : \E i \in 1..Len(starts[s]) : starts[s][i].state = "resolved"

\* the fetch of completeChallenge ends without the server's answer: it is
\* rejected, or answered by something else with a status that is not ok
fetchLost(outcome) == response = 0 /\ fetchSettles(outcome)

\* one file, the extension, the server and the page it serves
NextLive ==
  \/ \E applied \in BOOLEAN : handleFileOpen("a.ts", applied)
  \/ listenCallback
  \/ serverError
  \/ \E ok \in BOOLEAN : pageServed /\ initPoseDetection(ok)
  \/ \E face \in FaceFrames(IMAGES[imageIndex + 1]) : onFaceResults(face)
  \/ \E lm \in PoseFrames(IMAGES[imageIndex + 1]) : Fed(lm) /\ onPoseResults(lm)
  \/ cooldownElapsed
  \/ fetchResolves
  \/ \E outcome \in {"notok", "failed"} : fetchLost(outcome)
  \/ closeElapsed
  \/ beforeUnload
  \/ \E i \in 1..Len(inflight), n \in 1..4 : onData(i, n)
  \/ \E i \in 1..Len(inflight) : onEnd(i)
  \/ \E ok \in BOOLEAN : applyEditSettles(ok)
  \/ closeDocument("a.ts")
  \/ userEdits("a.ts")

\* timers fire, request bodies arrive and end, applyEdit settles
FairLive ==
  /\ WF_vars(cooldownElapsed)
  /\ WF_vars(dataArrives)
  /\ WF_vars(\E i \in 1..Len(inflight) : onEnd(i))
  /\ WF_vars(\E ok \in BOOLEAN : applyEditSettles(ok))

SpecLive == InitLocked /\ [][NextLive]_vars

\* the same system where the user leaves the text of the locked document
\* alone, the page's POST arrives in one chunk and its answer is the server's
NextFair ==
  \/ \E applied \in BOOLEAN : handleFileOpen("a.ts", applied)
  \/ listenCallback
  \/ serverError
  \/ \E ok \in BOOLEAN : pageServed /\ initPoseDetection(ok)
  \/ \E face \in FaceFrames(IMAGES[imageIndex + 1]) : onFaceResults(face)
  \/ \E lm \in PoseFrames(IMAGES[imageIndex + 1]) : Fed(lm) /\ onPoseResults(lm)
  \/ cooldownElapsed
  \/ fetchResolves
  \/ closeElapsed
  \/ beforeUnload
  \/ dataArrives
  \/ \E i \in 1..Len(inflight) : onEnd(i)
  \/ \E ok \in BOOLEAN : applyEditSettles(ok)
  \/ closeDocument("a.ts")

SpecFair == InitLocked /\ [][NextFair]_vars /\ FairLive

(***************************************************************************)
(* The page generator                                                      *)
(***************************************************************************)
\* a faulty exchange: the element at i is overwritten, the one at j is kept
swapOverwrite(arr, i, j) == [arr EXCEPT ![i + 1] = arr[j + 1]]

\* [shuffled[i], shuffled[j]] = [shuffled[j], shuffled[i]], 0-based
swap(arr, i, j) == [arr EXCEPT ![i + 1] = arr[j + 1], ![j + 1] = arr[i + 1]]

\* the values of j the loop can draw: Math.floor(Math.random() * (i + 1))
RandomDraws ==
  {r \in [1..(Len(ALL_CHALLENGES) - 1) -> 0..(Len(ALL_CHALLENGES) - 1)] :
     \A i \in DOMAIN r : r[i] <= i}

RECURSIVE shuffleFrom(_, _, _)
shuffleFrom(arr, i, rand) ==
  IF i > 0 THEN shuffleFrom(swap(arr, i, rand[i]), i - 1, rand) ELSE arr

\* shuffleArray works on a copy of array, from the last index down to 1
shuffleArray(array, rand) == shuffleFrom(array, Len(array) - 1, rand)

\* the poses of challenges[0], challenges[1], challenges[2]
firstThree(arr) == <<arr[1], arr[2], arr[3]>>

\* GET / builds one page
getChallengeHTML(rand) ==
  /\ IMAGES = <<>>
  /\ shuffled' = shuffleArray(allChallenges, rand)
  /\ IMAGES' = firstThree(shuffled')
  /\ UNCHANGED allChallenges
  /\ lastOp' = "html"
  /\ lastFrame' = "none"
  /\ UNCHANGED <<imageIndex, poseDetectionActive, poseConfidenceCounter, isTransitioning,
                 currentFaceLandmarks, buffers, camera, page, cooldownTimer, closeTimer,
                 fetchState>>
  /\ UNCHANGED <<invoked, counterBefore, streak, matched, classified, leftLog, rightLog,
                 headLog, completeCalls>>
  /\ UNCHANGED <<srvVars, srvHist, clock, given, answer, extVars>>

\* no page has been built yet
InitGenerator == IMAGES = <<>> /\ InitPageState /\ InitServer /\ InitEnv

NextGenerator == \E rand \in RandomDraws : getChallengeHTML(rand)

SpecGenerator == InitGenerator /\ [][NextGenerator]_vars

(***************************************************************************)
(* The classifier bench: one call of checkCurrentPose on a frame, a face   *)
(* and motion histories drawn from the sets below                          *)
(***************************************************************************)
EmptyFace == [defined |-> TRUE, pts |-> <<>>]

\* the frame or face f with landmark i missing
Without(f, i) == [f EXCEPT !.pts = Restrict(f.pts, DOMAIN f.pts \ {i})]

\* the frame f with landmark i barely visible
Dim(f, i) == [f EXCEPT !.pts[i].v = 100]

LandmarkVariants(f) ==
  {f} \cup {Without(f, i) : i \in DOMAIN f.pts} \cup {Dim(f, i) : i \in DOMAIN f.pts}

FaceVariants(f) == {f, NoFace, EmptyFace} \cup {Without(f, i) : i \in DOMAIN f.pts}

Alt(a, b, n) == [i \in 1..n |-> IF i % 2 = 1 THEN a ELSE b]

Ramp(a, step, n) == [i \in 1..n |-> a + (i - 1) * step]

Stairs(a, step, n) == [i \in 1..n |-> a + (i \div 2) * step]

\* up by d, up by e, down by d, down by e, and so on
Wobble(a, d, e, n) ==
  [i \in 1..n |-> CASE i % 4 = 1 -> a
                    [] i % 4 = 2 -> a + d
                    [] i % 4 = 3 -> a + d + e
                    [] OTHER -> a + e]

WindowLengths == {14, 15, 16, 20, 30, 31}

WindowShapes(n) ==
  {Alt(0, 120, n), Alt(120, 0, n), Alt(500, 620, n), Alt(0, 70, n), Alt(0, 80, n),
   Wobble(200, 100, 15, n), Ramp(300, 0, n),
   Ramp(0, 1, n), Ramp(0, 16, n), Ramp(0, 40, n), Stairs(0, 100, n)}

Front(w) == SubSeq(w, 1, Len(w) - 1)

\* a frame whose wrists are at heights l and r
WristsAt(l, r) == [Stand(0, 0) EXCEPT !.pts[15].y = l, !.pts[16].y = r]

\* the last sample of each window arrives with the frame
HandsInputs ==
  UNION {{[pose |-> "67hands", lm |-> WristsAt(l[Len(l)], r[Len(r)]), face |-> NoFace,
           lh |-> Front(l), rh |-> Front(r), hh |-> <<>>] :
            l \in WindowShapes(n), r \in WindowShapes(n)} : n \in WindowLengths}

\* the frame, the face and the histories on which the pose is being shown
ShownInput(p) ==
  [pose |-> p,
   lm |-> IF p = "67hands" THEN WristsAt(770, 770) ELSE Showing(p),
   face |-> IF p = "fanum" THEN Face(450, 60) ELSE Face(400, 10),
   lh |-> IF p = "67hands" THEN Alt(770, 650, 20) ELSE <<>>,
   rh |-> IF p = "67hands" THEN Alt(770, 650, 20) ELSE <<>>,
   hh |-> IF p = "fanum" THEN Alt(450, 400, 20) ELSE <<>>]

\* the same with one landmark missing or barely visible
DegradedInputs ==
  UNION {{[ShownInput(p) EXCEPT !.lm = lm, !.face = face] :
            lm \in LandmarkVariants(ShownInput(p).lm),
            face \in FaceVariants(ShownInput(p).face)} : p \in Poses}

\* the shrug with each wrist at height l, r and each elbow at angle la, ra
KhabyFrame(l, r, la, ra) ==
  [Stand(0, 0) EXCEPT !.pts[15].y = l, !.pts[16].y = r,
                      !.leftElbowAngle = la, !.rightElbowAngle = ra]

WristHeights == {300, 350, 450, 550, 600}

ElbowAngles == {60, 90, 110, 120, 130, 150, 170, Degenerate}

KhabyInputs ==
  {[ShownInput("khaby") EXCEPT !.lm = KhabyFrame(l, r, la, ra)] :
     l \in WristHeights, r \in WristHeights,
     la \in {90, 120, 150, Degenerate}, ra \in {90, 120, 150, Degenerate}}

\* where the nose is: near both arms, near neither, near the left elbow, near
\* the right elbow, near the left wrist alone
NosePlaces == {Pt(500, 200, 900), Pt(500, 50, 900), Pt(700, 200, 900),
               Pt(300, 200, 900), Pt(660, 920, 900)}

DabInputs ==
  {[ShownInput("dab") EXCEPT !.lm = [Stand(0, 0) EXCEPT !.pts[0] = nose,
                                                        !.leftElbowAngle = la,
                                                        !.rightElbowAngle = ra]] :
     nose \in NosePlaces, la \in ElbowAngles, ra \in ElbowAngles}

\* an index finger: on the lip, under the nose, over the nose, at the hip
LipFingers ==
  {Pt(x, y, v) : x \in {500}, y \in {310, 100}, v \in {900, 300, 100}}
    \cup {Pt(515, 235, v) : v \in {900, 300, 100}}
    \cup {Pt(665, 700, v) : v \in {900, 300, 100}}

MonkeyThinkInputs ==
  {[ShownInput("monkeythink") EXCEPT !.lm = [Stand(0, 0) EXCEPT !.pts[19] = l,
                                                                !.pts[20] = r]] :
     l \in LipFingers, r \in LipFingers}

\* an index finger on the chin, at the hip or at the side of the jaw
JawFingers == {Pt(505, 295, v) : v \in {900, 300, 200}}
                \cup {Pt(665, 700, v) : v \in {900, 300, 200}}
                \cup {Pt(605, 262, 900)}

\* the face with the head tilted back: the nose tip lower than the chin
TiltedFace == [Face(400, 10) EXCEPT !.pts[1].y = 320]

\* the face with the jaw point 377 at the side, away from the chin
WideJawFace == [Face(400, 10) EXCEPT !.pts[377] = Pt(600, 260, 1000)]

MewingInputs ==
  {[ShownInput("mewing") EXCEPT !.lm = [Stand(0, 0) EXCEPT !.pts[19] = l, !.pts[20] = r],
                                !.face = face] :
     l \in JawFingers, r \in JawFingers,
     face \in {Face(400, 10), TiltedFace, WideJawFace}}

\* an index finger over or under its wrist
UpFingers == {Pt(665, y, v) : y \in {100, 700}, v \in {900, 200, 100}}

\* the face with the mouth corners at heights l and r
MouthCorners(l, r) == [Face(400, 10) EXCEPT !.pts[61].y = l, !.pts[291].y = r]

MonkeyHappyInputs ==
  {[ShownInput("monkeyhappy") EXCEPT !.lm = [Stand(0, 0) EXCEPT !.pts[19] = l,
                                                                !.pts[20] = r],
                                     !.face = MouthCorners(cl, cr)] :
     l \in UpFingers, r \in UpFingers, cl \in {255, 256}, cr \in {255, 256}}

\* k reversals of the head, 50 wide, and then no movement
Turns(k, n) ==
  [i \in 1..n |-> IF (IF i <= k + 2 THEN i ELSE k + 2) % 2 = 1 THEN 400 ELSE 450]

HeadShapes(n) ==
  {Alt(400, 450, n), Alt(400, 440, n), Alt(400, 441, n), Alt(400, 408, n),
   Ramp(400, 10, n), Turns(2, n), Turns(3, n), Wobble(400, 50, 8, n)}

\* lip gaps around 0.35 of the mouth width
LipGaps == {10, 35, 36, 60}

\* the last sample of the head window arrives with the face
FanumInputs ==
  UNION {{[pose |-> "fanum", lm |-> Stand(0, 0), face |-> Face(w[Len(w)], gap),
           lh |-> <<>>, rh |-> <<>>, hh |-> Front(w)] :
            w \in HeadShapes(n), gap \in LipGaps} : n \in WindowLengths}

\* frames that differ in single sub-conditions of the static poses
GestureInputs ==
  KhabyInputs \cup DabInputs \cup MonkeyThinkInputs \cup MewingInputs
    \cup MonkeyHappyInputs

BenchInputs == HandsInputs \cup DegradedInputs \cup GestureInputs \cup FanumInputs

\* checkCurrentPose(landmarks), on landmarks that onPoseResults let through
classify ==
  /\ given # NoInput /\ answer = NoAnswer
  /\ answer' = checkCurrentPose(given.pose, given.lm, given.face,
                                given.lh, given.rh, given.hh)
  /\ lastOp' = "classify"
  /\ lastFrame' = "none"
  /\ UNCHANGED <<pageVars, srvVars, srvHist>>
  /\ UNCHANGED <<invoked, counterBefore, streak, matched, classified, leftLog, rightLog,
                 headLog, completeCalls>>
  /\ UNCHANGED <<allChallenges, shuffled, clock, given, extVars>>

\* the faces currentFaceLandmarks can hold at a later call: stored by
\* faceMesh.onResults, or nulled by it or by clearMotionHistory
StoredFaces == {NoFace, Face(400, 10), Face(450, 60)}

\* checkCurrentPose is called once more on the same frame and the same
\* histories, with the face the page holds by then
classifyAgain(face) ==
  /\ "pose" \in DOMAIN given /\ answer # NoAnswer /\ "again" \notin DOMAIN answer
  /\ answer' = [match |-> answer.match, left |-> answer.left, right |-> answer.right,
                head |-> answer.head, pushed |-> answer.pushed, ran |-> answer.ran,
                again |-> checkCurrentPose(given.pose, given.lm, face,
                                           given.lh, given.rh, given.hh).match]
  /\ lastOp' = "classify"
  /\ lastFrame' = "none"
  /\ UNCHANGED <<pageVars, srvVars, srvHist>>
  /\ UNCHANGED <<invoked, counterBefore, streak, matched, classified, leftLog, rightLog,
                 headLog, completeCalls>>
  /\ UNCHANGED <<allChallenges, shuffled, clock, given, extVars>>

\* the landmark on the other side of the body, of the face
OtherSide(i) ==
  CASE i \in {9, 11, 13, 15, 19, 23} -> i + 1
    [] i \in {10, 12, 14, 16, 20, 24} -> i - 1
    [] OTHER -> i

OtherSideOfFace(i) ==
  LET pairs == {<<61, 291>>, <<78, 308>>, <<132, 361>>, <<136, 365>>, <<150, 379>>,
                <<149, 378>>, <<176, 400>>, <<148, 377>>}
  IN IF \E q \in pairs : q[1] = i THEN (CHOOSE q \in pairs : q[1] = i)[2]
     ELSE IF \E q \in pairs : q[2] = i THEN (CHOOSE q \in pairs : q[2] = i)[1]
     ELSE i

\* the frame with the landmarks of the left and of the right side exchanged
MirroredFrame(lm) ==
  [defined |-> lm.defined,
   pts |-> [i \in {OtherSide(j) : j \in DOMAIN lm.pts} |-> lm.pts[OtherSide(i)]],
   leftElbowAngle |-> lm.rightElbowAngle,
   rightElbowAngle |-> lm.leftElbowAngle]

MirroredFace(face) ==
  [defined |-> face.defined,
   pts |-> [i \in {OtherSideOfFace(j) : j \in DOMAIN face.pts} |->
              face.pts[OtherSideOfFace(i)]]]

\* checkCurrentPose is called once more, on the frame and the face with
\* their sides exchanged
classifyMirrored ==
  /\ "pose" \in DOMAIN given /\ answer # NoAnswer
  /\ "again" \notin DOMAIN answer /\ "mirrored" \notin DOMAIN answer
  /\ answer' = [match |-> answer.match, left |-> answer.left, right |-> answer.right,
                head |-> answer.head, pushed |-> answer.pushed, ran |-> answer.ran,
                mirrored |-> checkCurrentPose(given.pose, MirroredFrame(given.lm),
                                              MirroredFace(given.face),
                                              given.rh, given.lh, given.hh).match]
  /\ lastOp' = "classify"
  /\ lastFrame' = "none"
  /\ UNCHANGED <<pageVars, srvVars, srvHist>>
  /\ UNCHANGED <<invoked, counterBefore, streak, matched, classified, leftLog, rightLog,
                 headLog, completeCalls>>
  /\ UNCHANGED <<allChallenges, shuffled, clock, given, extVars>>

InitBench ==
  /\ IMAGES = <<>> /\ InitPageState /\ InitServer
  /\ allChallenges = ALL_CHALLENGES /\ shuffled = <<>> /\ clock = 0 /\ InitExtension
  /\ given \in BenchInputs
  /\ answer = NoAnswer

NextBench ==
  \/ classify
  \/ \E face \in StoredFaces : classifyAgain(face)
  \/ classifyMirrored

SpecBench == InitBench /\ [][NextBench]_vars


(***************************************************************************)
(* The content transform on the bench                                      *)
(***************************************************************************)
\* the contents put through the transform: up to MaxLen code units, among
\* them NUL, a letter, the last Latin-1 character, the first character
\* beyond Latin-1 and the euro sign
CodeUnits == {0, 65, 255, 256, 8364}

Contents == UNION {[1..n -> CodeUnits] : n \in 0..MaxLen}

encrypt ==
  /\ "content" \in DOMAIN given /\ answer = NoAnswer
  /\ answer' = [match |-> FALSE, ran |-> "encryptContent",
                encrypted |-> encryptContent(given.content)]
  /\ lastOp' = "encrypt"
  /\ lastFrame' = "none"
  /\ UNCHANGED <<pageVars, srvVars, srvHist>>
  /\ UNCHANGED <<invoked, counterBefore, streak, matched, classified, leftLog, rightLog,
                 headLog, completeCalls>>
  /\ UNCHANGED <<allChallenges, shuffled, clock, given, extVars>>

\* encryptContent is called once more on the same content
encryptAgain ==
  /\ answer.ran = "encryptContent" /\ "again" \notin DOMAIN answer
  /\ answer' = [match |-> FALSE, ran |-> "encryptContent",
                encrypted |-> answer.encrypted,
                again |-> encryptContent(given.content)]
  /\ lastOp' = "encrypt"
  /\ lastFrame' = "none"
  /\ UNCHANGED <<pageVars, srvVars, srvHist>>
  /\ UNCHANGED <<invoked, counterBefore, streak, matched, classified, leftLog, rightLog,
                 headLog, completeCalls>>
  /\ UNCHANGED <<allChallenges, shuffled, clock, given, extVars>>

decrypt ==
  /\ answer.ran = "encryptContent"
  /\ answer' = [match |-> FALSE, ran |-> "decryptContent",
                encrypted |-> answer.encrypted,
                decrypted |-> decryptContent(answer.encrypted)]
  /\ lastOp' = "decrypt"
  /\ lastFrame' = "none"
  /\ UNCHANGED <<pageVars, srvVars, srvHist>>
  /\ UNCHANGED <<invoked, counterBefore, streak, matched, classified, leftLog, rightLog,
                 headLog, completeCalls>>
  /\ UNCHANGED <<allChallenges, shuffled, clock, given, extVars>>

InitCipher ==
  /\ IMAGES = <<>> /\ InitPageState /\ InitServer
  /\ allChallenges = ALL_CHALLENGES /\ shuffled = <<>> /\ clock = 0 /\ InitExtension
  /\ given \in {[content |-> c] : c \in Contents}
  /\ answer = NoAnswer

NextCipher == encrypt \/ encryptAgain \/ decrypt

SpecCipher == InitCipher /\ [][NextCipher]_vars

(***************************************************************************)
(* Claims                                                                  *)
(***************************************************************************)
Stages == {0, 1, 2}

ClassifierOf(p) ==
  CASE p = "67hands" -> "check67Hands"
    [] p = "fanum" -> "checkFanumTax"
    [] p = "monkeythink" -> "checkMonkeyThink"
    [] p = "khaby" -> "checkKhaby"
    [] p = "mewing" -> "checkMewing"
    [] p = "monkeyhappy" -> "checkMonkeyHappy"
    [] p = "dab" -> "checkDab"

\* C1: onComplete(true) is invoked only after the challenge page matched all
\* three of its stages; no other sequence of requests releases it.
C1_ReleasedOnlyAfterThreeStages ==
  \A s \in 1..MaxSessions : onCompleteCalls[s] # <<>> => matched = Stages

\* C2: the classifier a frame invokes is the one of the stage at the cursor;
\* the cursor moves only by +1 and only from a stage that reached the
\* threshold, so no stage is skipped or revisited.
C2_StagesInOrder ==
  /\ [](invoked # "none" => invoked = ClassifierOf(IMAGES[imageIndex + 1]))
  /\ [][imageIndex' # imageIndex =>
          imageIndex' = imageIndex + 1 /\ imageIndex \in matched]_vars
  /\ [](\A i \in matched : \A j \in 0..i : j \in matched)

C2_Witness == imageIndex = 2 /\ invoked = ClassifierOf(IMAGES[3]) /\ lastFrame = "match"

\* C3 as stated: after any frame that does not match (verdict false, or
\* landmarks absent or empty) the confidence counter is 0.
C3_AnyMissResets ==
  lastFrame \in {"nomatch", "absent", "skippedAbsent"} => poseConfidenceCounter = 0

\* C3 amended: after a frame that onPoseResults processes (detection active,
\* no cooldown) and that does not match, the confidence counter is 0,
\* whatever it was before.
C3_ProcessedMissResets ==
  lastFrame \in {"nomatch", "absent"} => poseConfidenceCounter = 0

C3_Witness ==
  lastFrame \in {"nomatch", "absent"} /\ counterBefore = 4 /\ poseConfidenceCounter = 0

\* C4: a stage is advanced exactly when 5 consecutive processed frames
\* matched: the fifth consecutive match schedules the advance, nothing less
\* does, and the cursor moves (or the challenge completes) only from there.
C4_FiveConsecutiveAdvance ==
  /\ [](cooldownTimer > 0 <=> streak = 5)
  /\ [](isTransitioning <=> streak = 5)
  /\ [][(imageIndex' # imageIndex \/ completeCalls' # completeCalls) => streak = 5]_vars
  /\ [][lastOp' = "timer" =>
          (imageIndex' = imageIndex + 1 \/ completeCalls' = completeCalls + 1)]_vars

C4_Witness == lastOp = "timer" /\ imageIndex = 1 /\ counterBefore = 4

\* C5: completeChallenge is called iff each of the three stages reached
\* matched, and only after the last one did.
C5_CompleteIffAllMatched ==
  /\ [](completeCalls > 0 => matched = Stages)
  /\ []((matched = Stages /\ cooldownTimer = 0) => completeCalls > 0)
  /\ [][completeCalls' # completeCalls => imageIndex = 2 /\ 2 \in matched]_vars

C5_Witness == completeCalls = 1 /\ matched = Stages /\ fetchState = "sent"

\* C6: during the cooldown a frame changes nothing: no classifier is invoked
\* and the counter, the cursor and the motion histories stay as they are.
C6_CooldownFreezes ==
  [][(isTransitioning /\ lastOp' = "frame") =>
       /\ invoked' = "none"
       /\ UNCHANGED <<poseConfidenceCounter, imageIndex, isTransitioning, buffers>>]_vars

C6_Witness ==
  /\ isTransitioning /\ lastFrame = "skippedPresent"
  /\ leftWristHistory # <<>> /\ poseConfidenceCounter = 5

\* C7: right after the cursor advanced, and until the first frame is
\* classified for a stage, the counter is 0 and every motion history is empty.
C7_FreshStage ==
  /\ [](~classified =>
          /\ poseConfidenceCounter = 0
          /\ leftWristHistory = <<>> /\ rightWristHistory = <<>>
          /\ handYHistory = <<>> /\ headXHistory = <<>>)
  /\ [][imageIndex' # imageIndex => ~classified']_vars

C7_Witness ==
  /\ imageIndex >= 1 /\ ~classified
  /\ IMAGES[imageIndex] \in {"67hands", "fanum"}

\* C8: every motion history holds at most 30 samples, and a push onto a full
\* one drops exactly its oldest sample.
Evicts(h, hNew, log, logNew) ==
  (Len(logNew) = Len(log) + 1 /\ Len(h) = 30) =>
    /\ Len(hNew) = 30
    /\ SubSeq(hNew, 1, 29) = Tail(h)
    /\ hNew[30] = logNew[Len(logNew)]

C8_HistoryBounded ==
  /\ [](/\ Len(leftWristHistory) <= 30 /\ Len(rightWristHistory) <= 30
        /\ Len(handYHistory) <= 30 /\ Len(headXHistory) <= 30)
  /\ [][/\ Evicts(leftWristHistory, leftWristHistory', leftLog, leftLog')
        /\ Evicts(rightWristHistory, rightWristHistory', rightLog, rightLog')
        /\ Evicts(headXHistory, headXHistory', headLog, headLog')]_vars

C8_Witness == Len(leftWristHistory) = 30 /\ Len(leftLog) > 30

\* C9: a motion history is the sequence of the samples pushed since the last
\* clear when there are fewer than 30, and the 30 most recent of them, in
\* arrival order, from then on.
C9_HistoryIsRecentWindow ==
  /\ leftWristHistory = LastN(leftLog, 30)
  /\ rightWristHistory = LastN(rightLog, 30)
  /\ headXHistory = LastN(headLog, 30)
  /\ handYHistory = <<>>

C9_Witness == Len(headLog) > 30 /\ Len(headXHistory) = 30 /\ headXHistory[1] # headXHistory[2]

\* C10: onComplete is invoked at most once per session; a well-formed
\* completion is answered with success, invokes onComplete(true) and clears
\* the session when one is active, and is a no-op when none is.
C10_AtMostOnce ==
  /\ [](\A s \in 1..MaxSessions : Len(onCompleteCalls[s]) <= 1)
  /\ [][(lastOp' = "end" /\ JSONparse(lastEnd')) =>
          /\ lastReply' = Reply(200, "success")
          /\ IF session # 0
             THEN /\ session' = 0
                  /\ onCompleteCalls' = [onCompleteCalls EXCEPT ![session] = <<TRUE>>]
             ELSE UNCHANGED <<session, onCompleteCalls>>
          /\ UNCHANGED onErrorCalls]_vars

C10_Witness ==
  /\ overlapped /\ okReplies >= 2 /\ registered = 1
  /\ onCompleteCalls[1] = <<TRUE>> /\ session = 0

\* C11: a POST /complete whose body is not well-formed JSON is answered 400
\* with success false, invokes no callback and leaves the session as it was;
\* a later well-formed completion still resolves that session.
C11_MalformedRejected ==
  /\ [][(lastOp' = "end" /\ ~JSONparse(lastEnd')) =>
          /\ lastReply' = Reply(400, "invalid")
          /\ UNCHANGED <<session, onCompleteCalls, onErrorCalls>>]_vars
  /\ [][(lastOp' = "end" /\ JSONparse(lastEnd') /\ session \in rejected \ {0}) =>
          /\ onCompleteCalls'[session] = <<TRUE>>
          /\ session' = 0]_vars

C11_Witness ==
  /\ 1 \in rejected /\ lastOp = "end" /\ JSONparse(lastEnd)
  /\ onCompleteCalls[1] = <<TRUE>> /\ registered = 1

\* C12: a well-formed POST /complete that ends while no session is active is
\* answered 200 with success true, invokes no callback and leaves the
\* session null.
C12_NoSessionNoOp ==
  [][(lastOp' = "end" /\ JSONparse(lastEnd') /\ session = 0) =>
       /\ lastReply' = Reply(200, "success")
       /\ session' = 0
       /\ UNCHANGED <<onCompleteCalls, onErrorCalls>>]_vars

C12_Witness ==
  /\ lastOp = "end" /\ JSONparse(lastEnd) /\ registered = 0
  /\ session = 0 /\ lastReply = Reply(200, "success")

\* C13: there is one session slot; setSession puts the new session in it
\* whatever it held, and no callback of a session that was replaced is
\* invoked from then on.
C13_ReplacedNeverInvoked ==
  /\ [](session \in 0..registered)
  /\ [][lastOp' = "setSession" =>
          /\ registered' = registered + 1
          /\ session' = registered']_vars
  /\ [][\A s \in replaced :
          /\ onCompleteCalls'[s] = onCompleteCalls[s]
          /\ onErrorCalls'[s] = onErrorCalls[s]]_vars
  /\ [](\A s \in replaced : s # session)

C13_Witness ==
  /\ 1 \in replaced /\ onCompleteCalls[1] = <<>>
  /\ onCompleteCalls[2] = <<TRUE>> /\ session = 0

\* C14: a request that is not a POST /complete with a well-formed body
\* leaves the session and the callbacks alone at every step of its handling;
\* OPTIONS is answered 200 on any path and an unknown route 404.
IsCompletion(r) == r.method = "POST" /\ r.path = <<"complete">>

IsKnownRoute(r) ==
  \/ r.method = "OPTIONS"
  \/ r.found
  \/ r.method = "GET" /\ r.path \in {<<>>, <<"health">>}
  \/ IsCompletion(r)

C14_OtherRequestsInert ==
  /\ [][(/\ lastOp' \in {"request", "data", "end"}
         /\ ~(lastOp' = "end" /\ IsCompletion(lastRequest') /\ JSONparse(lastEnd'))) =>
          UNCHANGED <<session, onCompleteCalls, onErrorCalls>>]_vars
  /\ [][(lastOp' = "request" /\ lastRequest'.method = "OPTIONS") =>
          lastReply' = Reply(200, "empty") /\ UNCHANGED inflight]_vars
  /\ [][(lastOp' = "request" /\ ~IsKnownRoute(lastRequest')) =>
          lastReply' = Reply(404, "notfound") /\ UNCHANGED inflight]_vars

C14_Witness ==
  /\ lastOp = "request" /\ session # 0 /\ clientRequests = 2
  /\ lastRequest.method = "OPTIONS" /\ lastRequest.path = <<"complete">>
  /\ lastReply = Reply(200, "empty")

C16_SixtySecondLimit ==
  (clock >= 60 /\ matched # Stages) => ~poseDetectionActive

\* C17: a page built by getChallengeHTML has exactly 3 stages, pairwise
\* distinct members of the 7 kinds: they are the first 3 elements of what
\* shuffleArray returned, which holds every element of ALL_CHALLENGES
\* exactly once, and ALL_CHALLENGES itself is as it was.
IsPermutation(a, b) ==
  /\ Len(a) = Len(b)
  /\ \A x \in Poses :
       Cardinality({i \in 1..Len(a) : a[i] = x}) = Cardinality({i \in 1..Len(b) : b[i] = x})

C17_ThreeDistinctStages ==
  /\ allChallenges = ALL_CHALLENGES
  /\ IMAGES # <<>> =>
       /\ Len(IMAGES) = 3
       /\ \A i \in 1..3 : IMAGES[i] \in Poses
       /\ IMAGES[1] # IMAGES[2] /\ IMAGES[1] # IMAGES[3] /\ IMAGES[2] # IMAGES[3]
       /\ IsPermutation(shuffled, ALL_CHALLENGES)
       /\ IMAGES = SubSeq(shuffled, 1, 3)

C17_Witness ==
  /\ lastOp = "html" /\ IMAGES = <<"dab", "mewing", "67hands">>
  /\ shuffled[7] = "fanum"

\* C18: check67Hands answers match when the two wrist windows hold at least
\* 15 samples and each alternates between two values 0.12 apart, and no
\* match when a wrist window never decreases, whatever its amplitude.
Alternates(w, d) ==
  /\ \A i \in 2..Len(w) : Abs(w[i] - w[i - 1]) = d
  /\ \A i \in 3..Len(w) : w[i] = w[i - 2]

NonDecreasing(w) == \A i \in 2..Len(w) : w[i] >= w[i - 1]

C18_OscillatingHands ==
  (answer.ran = "check67Hands" /\ answer.pushed) =>
    /\ (/\ Len(answer.left) >= 15
        /\ Alternates(answer.left, 120) /\ Alternates(answer.right, 120)) => answer.match
    /\ (NonDecreasing(answer.left) \/ NonDecreasing(answer.right)) => ~answer.match

C18_Witness ==
  /\ answer.ran = "check67Hands" /\ answer.match /\ Len(answer.left) = 15
  /\ Alternates(answer.left, 120) /\ Alternates(answer.right, 120)
  /\ answer.left[1] # answer.right[1]

\* C19: a dynamic classifier answers match only on a window of at least 15
\* samples: the wrist histories always have the same length, which is at
\* least 15 when check67Hands matched, and so is the length of the head
\* history when checkFanumTax matched.
C19_MinimumSamples ==
  /\ Len(leftWristHistory) = Len(rightWristHistory)
  /\ (lastFrame = "match" /\ invoked = "check67Hands") =>
       Len(leftWristHistory) >= 15 /\ Len(rightWristHistory) >= 15
  /\ (lastFrame = "match" /\ invoked = "checkFanumTax") => Len(headXHistory) >= 15

C19_Witness ==
  /\ lastFrame = "match" /\ invoked = "checkFanumTax"
  /\ Len(headXHistory) = 15 /\ poseConfidenceCounter = 1

\* the landmarks a classifier cannot do without, at the visibility it asks
Required(in) ==
  LET lm == in.lm
      face == in.face
      seen(i, least) == Has(lm, i) /\ lm.pts[i].v >= least
      hasFace == face.defined /\ DOMAIN face.pts # {}
  IN CASE in.pose = "67hands" -> Has(lm, 15) /\ Has(lm, 16)
       [] in.pose = "fanum" -> hasFace /\ \A i \in {13, 14, 78, 308, 1} : Has(face, i)
       [] in.pose = "monkeythink" -> Has(lm, 0) /\ (seen(19, 301) \/ seen(20, 301))
       [] in.pose = "khaby" ->
            /\ \A i \in {11, 12, 23, 24} : Has(lm, i)
            /\ \A i \in {13, 14, 15, 16} : seen(i, 500)
       [] in.pose = "mewing" ->
            /\ hasFace /\ Has(face, 1) /\ Has(face, 152)
            /\ seen(19, 300) \/ seen(20, 300)
       [] in.pose = "monkeyhappy" ->
            /\ hasFace
            /\ \/ seen(19, 200) /\ Has(lm, 15)
               \/ seen(20, 200) /\ Has(lm, 16)
       [] in.pose = "dab" -> \A i \in {0, 11, 12, 13, 14, 15, 16} : Has(lm, i)

\* the mouth landmarks from which checkMonkeyHappy reads the smile
SmileLandmarks == {61, 291, 13}

StaticPoses == {"monkeythink", "khaby", "mewing", "monkeyhappy", "dab"}

\* every landmark the bench draws is in the frame and in the face
Complete(in) ==
  /\ in.lm.defined /\ DOMAIN in.lm.pts = DOMAIN StandPts(0, 0)
  /\ in.face.defined /\ DOMAIN in.face.pts = DOMAIN FacePts(400, 10)

Bent(angle, limit) == angle # Degenerate /\ angle < limit

Extended(angle, limit) == angle # Degenerate /\ angle > limit

\* the sub-conditions of each static pose, as the pose is described
KhabyHolds(lm) ==
  LET midTorso4 == lm.pts[11].y + lm.pts[12].y + lm.pts[23].y + lm.pts[24].y
  IN /\ \A i \in {13, 14, 15, 16} : lm.pts[i].v >= 500
     /\ \A side \in {<<15, 11>>, <<16, 12>>} :
          /\ lm.pts[side[1]].y > lm.pts[side[2]].y
          /\ 4 * lm.pts[side[1]].y < midTorso4
     /\ Bent(lm.leftElbowAngle, 120) /\ Bent(lm.rightElbowAngle, 120)

DabHolds(lm) ==
  \E side \in {[elbow |-> 13, wrist |-> 15, own |-> lm.leftElbowAngle,
                other |-> lm.rightElbowAngle],
               [elbow |-> 14, wrist |-> 16, own |-> lm.rightElbowAngle,
                other |-> lm.leftElbowAngle]} :
    /\ \/ distLt(lm.pts[0], lm.pts[side.elbow], 400)
       \/ distLt(lm.pts[0], lm.pts[side.wrist], 300)
    /\ Bent(side.own, 130)
    /\ Extended(side.other, 110)

MonkeyThinkHolds(lm) ==
  \E f \in {19, 20} :
    /\ lm.pts[f].v > 300
    /\ \/ distLt(lm.pts[f], lm.pts[9], 80)
       \/ distLt(lm.pts[f], lm.pts[10], 80)
       \/ (distLt(lm.pts[f], lm.pts[0], 120) /\ lm.pts[f].y > lm.pts[0].y)

MewingHolds(lm, face) ==
  \E f \in {19, 20} :
    /\ lm.pts[f].v >= 300
    /\ lm.pts[f].y >= face.pts[1].y
    /\ \E j \in jawlinePoints \cap DOMAIN face.pts : distLt(lm.pts[f], face.pts[j], 70)

MonkeyHappyHolds(lm, face) ==
  /\ \E corner \in {61, 291} : face.pts[corner].y <= face.pts[13].y + 20
  /\ \E hand \in {<<19, 15>>, <<20, 16>>} :
       /\ lm.pts[hand[1]].v >= 200
       /\ lm.pts[hand[1]].y < lm.pts[hand[2]].y

AllHold(in) ==
  CASE in.pose = "khaby" -> KhabyHolds(in.lm)
    [] in.pose = "dab" -> DabHolds(in.lm)
    [] in.pose = "monkeythink" -> MonkeyThinkHolds(in.lm)
    [] in.pose = "mewing" -> MewingHolds(in.lm, in.face)
    [] in.pose = "monkeyhappy" -> MonkeyHappyHolds(in.lm, in.face)

\* C21: on a frame that has every landmark, a static classifier answers
\* match exactly when all the sub-conditions of its pose hold (for one side,
\* where either limb may show the pose): one violated sub-condition, of
\* position, of elbow angle or of visibility, is enough for no match.
C21_SubConditionsDecide ==
  (answer # NoAnswer /\ given.pose \in StaticPoses /\ Complete(given))
    => (answer.match <=> AllHold(given))

\* a shrug that is right but for the left elbow, bent at exactly 120
\* degrees, is refused
C21_Witness ==
  /\ answer.ran = "checkKhaby" /\ ~answer.match
  /\ given.lm = KhabyFrame(450, 450, 120, 90)
  /\ KhabyHolds(KhabyFrame(450, 450, 90, 90))

\* the lip gap is more than 0.35 of the mouth width
MouthOpen(face) ==
  100 * Abs(face.pts[14].y - face.pts[13].y)
    > 35 * (Abs(face.pts[308].x - face.pts[78].x) + 1)

\* the window holds a head shake
HeadOscillates(w) ==
  Len(w) >= 15 /\ countChanges(w, HEAD_NOISE) >= 3 /\ getRange(w) > 40

\* C22: checkFanumTax answers match on a frame exactly when, on that frame,
\* the mouth is open by more than 0.35 of its width and the head window,
\* the new sample included, holds at least 15 samples, at least 3 reversals
\* and a range above 0.04; one of the two without the other is no match.
C22_MouthAndShake ==
  answer.ran = "checkFanumTax" =>
    /\ ~answer.pushed => ~answer.match
    /\ answer.pushed =>
         (answer.match <=> (MouthOpen(given.face) /\ HeadOscillates(answer.head)))

\* an open mouth on a head that turned only twice, and a shaking head with
\* the mouth a little short of open, are both refused
C22_Witness ==
  /\ answer.ran = "checkFanumTax" /\ answer.pushed /\ ~answer.match
  /\ \/ MouthOpen(given.face) /\ ~HeadOscillates(answer.head)
        /\ Len(answer.head) >= 15 /\ getRange(answer.head) > 40
     \/ ~MouthOpen(given.face) /\ HeadOscillates(answer.head)

\* C28: a page calls completeChallenge at most once, from the cooldown timer
\* of the third stage, and detection is off when the message leaves; from
\* then on a frame handed to onPoseResults changes nothing in the page.
C28_CompletionSentOnce ==
  [][/\ completeCalls' # completeCalls =>
          /\ completeCalls = 0 /\ completeCalls' = 1
          /\ lastOp' = "timer" /\ cooldownTimer > 0 /\ imageIndex = 2
          /\ ~poseDetectionActive' /\ fetchState' = "sent"
     /\ (completeCalls >= 1 /\ lastOp' = "frame") => UNCHANGED pageVars]_vars

\* a frame with a body in it arrives after the completion was sent
C28_Witness ==
  /\ completeCalls = 1 /\ page = "open"
  /\ lastOp = "frame" /\ lastFrame = "skippedPresent"

\* C24: decryptContent(encryptContent(c)) is c for every content c, and
\* encryptContent(c) is the same string on every call.
C24_RoundTrip ==
  /\ answer.ran = "decryptContent" => answer.decrypted = given.content
  /\ (answer.ran = "encryptContent" /\ "again" \in DOMAIN answer)
       => answer.again = answer.encrypted

\* C30: a classifier called twice on the same pose frame and the same
\* motion histories gives the same verdict, whatever face the page holds.
C30_SameInputsSameVerdict ==
  "again" \in DOMAIN answer => answer.again = answer.match

\* C25: a startServer call reports success only for a server that is
\* listening: no call made while the port is not bound resolves.
C25_ResolvedOnlyWhenListening ==
  \A s \in DOMAIN starts : \A i \in 1..Len(starts[s]) :
    starts[s][i].state = "resolved" => starts[s][i].listening

\* C26: when the challenge of a session fails, the onError callback stored
\* in that session is invoked: here the failure is that of startServer, the
\* one failure the code detects while a session is set.
C26_FailureInvokesOnError ==
  \A s \in DOMAIN starts :
    (\E i \in 1..Len(starts[s]) : starts[s][i].state = "rejected")
      => onErrorCalls[s] > 0


\* how a call of decryptFile that did not unlock the file is logged
DecryptFailures == {"notFound", "notDecryptable", "notApplied"}

\* decryptFile cannot go on to its edit: the document is not open, or
\* decryptContent returns nothing to write
CannotDecrypt(uri) ==
  \/ ~documents[uri].open
  \/ decryptContent(documents[uri].content) \in {null, <<>>}

\* C27: a well-formed completion with an active session clears the session
\* whatever onComplete does; a decryptFile that fails (document not open,
\* content not decryptable, edit not applied) leaves the text of the file
\* and its entry in lockedFiles as they were; a completion that finds no
\* session changes nothing of the extension.
C27_FailedDecryptKeepsLock ==
  /\ [][(lastOp' = "end" /\ JSONparse(lastEnd') /\ session # 0) =>
          /\ session' = 0
          /\ (sessionFile[session] # "none" /\ CannotDecrypt(sessionFile[session])) =>
               /\ documents' = documents
               /\ lockedFiles' = lockedFiles
               /\ edits' = edits
               /\ Len(decryptLog'[sessionFile[session]])
                    = Len(decryptLog[sessionFile[session]]) + 1
               /\ decryptLog'[sessionFile[session]]
                    [Len(decryptLog'[sessionFile[session]])] \in DecryptFailures]_vars
  /\ [][\A uri \in Files :
          (/\ Len(decryptLog'[uri]) > Len(decryptLog[uri])
           /\ decryptLog'[uri][Len(decryptLog'[uri])] \in DecryptFailures) =>
            /\ documents' = documents
            /\ lockedFiles' = lockedFiles]_vars
  /\ [][(lastOp' = "end" /\ session = 0) =>
          /\ session' = 0
          /\ onCompleteCalls' = onCompleteCalls
          /\ UNCHANGED extVars]_vars

\* a file stays locked after a failed decryptFile, the session is cleared,
\* and a second well-formed completion has been answered since
C27_Witness ==
  /\ \E uri \in Files :
       /\ decryptLog[uri] # <<>>
       /\ decryptLog[uri][Len(decryptLog[uri])] \in DecryptFailures
       /\ uri \in lockedFiles
       /\ isEncrypted(documents[uri].content)
  /\ session = 0 /\ registered = 1
  /\ lastOp = "end" /\ JSONparse(lastEnd) /\ okReplies >= 2


\* the requests in flight that the page sent
PageRequests(q) == Cardinality({i \in 1..Len(q) : q[i].src = "page"})

\* C29: nothing is retried.  Once the completion POST of the page has
\* failed or was answered with a status that is not ok, the page sends no
\* other one and its challenge state never changes again; when startServer
\* fails the server does not listen again, startPoseChallenge has called it
\* once only, and the documents, lockedFiles and the session stay as they
\* were, the session set on a locked file.
C29_NoRetry ==
  /\ [][(fetchState \in {"failed", "notok"}) =>
          /\ fetchState' = fetchState
          /\ completeCalls' = completeCalls
          /\ PageRequests(inflight') <= PageRequests(inflight)
          /\ UNCHANGED <<imageIndex, poseDetectionActive, poseConfidenceCounter,
                         isTransitioning, cooldownTimer, closeTimer>>
          /\ matched' = matched]_vars
  /\ [][lastOp' = "error" =>
          /\ server' \notin {"binding", "listening"}
          /\ session' = session /\ session # 0
          /\ sessionFile'[session] \in lockedFiles'
          /\ documents' = documents /\ lockedFiles' = lockedFiles
          /\ \A s \in DOMAIN starts :
               /\ Len(starts'[s]) = Len(starts[s])
               /\ \A i \in 1..Len(starts[s]) :
                    starts'[s][i] = IF starts[s][i].state = "pending"
                                    THEN [state |-> "rejected", listening |-> FALSE]
                                    ELSE starts[s][i]]_vars
  /\ [][(server = "failed") =>
          /\ server' = server
          /\ \A s \in DOMAIN starts : \A i \in 1..Len(starts'[s]) :
               starts'[s][i].state # "pending"]_vars
  /\ [][\A s \in DOMAIN starts : Len(starts'[s]) <= 1]_vars

\* the page's POST was lost, and a frame that arrived afterwards was dropped
C29_Witness ==
  /\ fetchState \in {"failed", "notok"}
  /\ completeCalls = 1
  /\ lastOp = "frame" /\ lastFrame = "skippedPresent"
  /\ session # 0 /\ sessionFile[session] \in lockedFiles


\* the three stages reached the threshold and the page is still there
AllMatched == matched = Stages /\ page = "open"

\* the user left the page before it sent its signal
PageLeft == page = "closed" /\ completeCalls = 0

\* the page sent its one POST and a session's onComplete(true) ran once,
\* which cleared that session
Resolved(s) ==
  /\ completeCalls = 1
  /\ onCompleteCalls[s] = <<TRUE>>
  /\ session # s
  /\ sessionFile[s] = "a.ts"

C31_RangeAtMinimumRejected ==
  /\ (answer.ran = "check67Hands" /\ answer.pushed
      /\ (getRange(answer.left) = HANDS_RANGE \/ getRange(answer.right) = HANDS_RANGE))
       => ~answer.match
  /\ (answer.ran = "checkFanumTax" /\ answer.pushed
      /\ getRange(answer.head) = HEAD_RANGE) => ~answer.match


\* the steps of a window that are larger than the noise level
BigSteps(w, noise) == {i \in 2..Len(w) : Abs(w[i] - w[i - 1]) > noise}

\* the large steps that go the other way than the large step before them
Reversals(w, noise) ==
  Cardinality({i \in BigSteps(w, noise) :
                 \E j \in BigSteps(w, noise) :
                   /\ j < i
                   /\ \A k \in BigSteps(w, noise) : k < i => k <= j
                   /\ (w[j] > w[j - 1]) # (w[i] > w[i - 1])})

\* the window has a step that is not zero and within the noise level
HasSmallStep(w, noise) ==
  \E i \in 2..Len(w) : w[i] # w[i - 1] /\ Abs(w[i] - w[i - 1]) <= noise

\* C32: the reversals a classifier counts are the sign alternations among
\* the steps larger than the noise level (15 for a wrist, 8 for the head),
\* the steps within it being passed over; check67Hands matches only with 3
\* reversals or more on each wrist, and does match with them on a window of
\* 15 samples with enough range; checkFanumTax likewise for the head.
C32_ReversalsDecide ==
  /\ (answer.ran = "check67Hands" /\ answer.pushed) =>
       /\ answer.match =>
            /\ Reversals(answer.left, HANDS_NOISE) >= 3
            /\ Reversals(answer.right, HANDS_NOISE) >= 3
       /\ (/\ Len(answer.left) >= 15
           /\ SeqMax(answer.left) - SeqMin(answer.left) > 80
           /\ SeqMax(answer.right) - SeqMin(answer.right) > 80
           /\ Reversals(answer.left, HANDS_NOISE) >= 3
           /\ Reversals(answer.right, HANDS_NOISE) >= 3) => answer.match
  /\ (answer.ran = "checkFanumTax" /\ answer.pushed) =>
       /\ answer.match => Reversals(answer.head, HEAD_NOISE) >= 3
       /\ (/\ Len(answer.head) >= 15
           /\ SeqMax(answer.head) - SeqMin(answer.head) > 40
           /\ Reversals(answer.head, HEAD_NOISE) >= 3
           /\ MouthOpen(given.face)) => answer.match

\* the hands matched on a left window with steps of exactly the noise level
\* between its reversals, the right wrist oscillating plainly
C32_Witness ==
  /\ answer.ran = "check67Hands" /\ answer.match
  /\ HasSmallStep(answer.left, HANDS_NOISE)
  /\ ~HasSmallStep(answer.right, HANDS_NOISE)
  /\ Reversals(answer.left, HANDS_NOISE) >= 3


\* the gestures that either hand may show
EitherSidePoses == {"dab", "monkeythink", "mewing", "monkeyhappy"}

\* C33: checkDab, checkMonkeyThink, checkMewing and checkMonkeyHappy give
\* the same verdict on a frame and on that frame with every left landmark
\* exchanged with the corresponding right one.
C33_SidesExchangeable ==
  ("mirrored" \in DOMAIN answer /\ given.pose \in EitherSidePoses) =>
    answer.mirrored = answer.match

\* the happy monkey is matched by the right hand alone, and by the left hand
\* alone once the sides are exchanged
C33_Witness ==
  /\ "mirrored" \in DOMAIN answer /\ given.pose = "monkeyhappy"
  /\ answer.match /\ answer.mirrored
  /\ ~isFingerUp(given.lm, 19, 15) /\ isFingerUp(given.lm, 20, 16)


\* C34: in every state of the page the confidence counter is between 0 and
\* 5 and the cursor between 0 and 2, and the counter is 5 only while
\* isTransitioning is true.
C34_CounterAndCursorBounds ==
  /\ poseConfidenceCounter \in 0..5
  /\ imageIndex \in 0..2
  /\ poseConfidenceCounter = 5 => isTransitioning

\* the third stage reached the threshold; frames keep arriving in its cooldown
C34_Witness ==
  /\ poseConfidenceCounter = 5 /\ isTransitioning /\ imageIndex = 2
  /\ lastOp = "frame" /\ lastFrame = "skippedPresent"


\* C35: at most one cooldown timer is pending, and it is pending only while
\* isTransitioning; every stage that reached the threshold is followed by
\* exactly one advance of the cursor or, for the third stage, one call of
\* completeChallenge; a frame that arrives during the cooldown starts no
\* timer and moves nothing, and the cursor moves by one stage at a time.
C35_OneTimerOneAdvance ==
  /\ [](cooldownTimer <= 1)
  /\ [](cooldownTimer = 1 => isTransitioning)
  /\ [](imageIndex + completeCalls + cooldownTimer = Cardinality(matched))
  /\ [][(isTransitioning /\ lastOp' = "frame") =>
          /\ cooldownTimer' = cooldownTimer
          /\ imageIndex' = imageIndex /\ completeCalls' = completeCalls
          /\ matched' = matched]_vars
  /\ [][imageIndex' # imageIndex =>
          /\ imageIndex' = imageIndex + 1
          /\ imageIndex \in matched /\ imageIndex' \notin matched
          /\ lastOp' = "timer"]_vars

\* the second stage was advanced from, after a frame had matched during its
\* cooldown
C35_Witness ==
  /\ lastOp = "timer" /\ imageIndex = 2 /\ matched = {0, 1}
  /\ cooldownTimer = 0 /\ ~isTransitioning
  /\ counterBefore = 5


\* the samples the classifier of the current stage pushed since the stage began
StageLog == IF IMAGES[imageIndex + 1] = "67hands" THEN leftLog ELSE headLog

DynamicStage == IMAGES[imageIndex + 1] \in {"67hands", "fanum"}

\* C36: a stage whose gesture is dynamic gets no match from its classifier
\* before the 15th sample of the stage, and reaches the threshold on the
\* 19th at the earliest.
C36_DynamicStageNeedsNineteen ==
  /\ [][(lastOp' = "frame" /\ lastFrame' = "match" /\ DynamicStage) =>
          Len(StageLog') >= 15]_vars
  /\ []((DynamicStage /\ isTransitioning) => Len(StageLog) >= 19)
  /\ []((DynamicStage /\ poseConfidenceCounter > 0) =>
          Len(StageLog) >= 14 + poseConfidenceCounter)

\* a stage of oscillating hands reached the threshold on its 19th frame
C36_Witness ==
  /\ IMAGES[imageIndex + 1] = "67hands" /\ imageIndex = 1
  /\ isTransitioning /\ lastFrame = "match"
  /\ Len(leftLog) = 19


\* a.ts was locked, then b.ts, whose session replaced that of a.ts, and
\* a.ts was not locked again since
LockedInTurn ==
  /\ sessionFile[1] = "a.ts" /\ sessionFile[2] = "b.ts" /\ 1 \in replaced
  /\ \A s \in 3..MaxSessions : sessionFile[s] # "a.ts"

Untouched(uri) ==
  /\ uri \in lockedFiles
  /\ decryptLog[uri] = <<>>
  /\ \A i \in 1..Len(edits) : edits[i].uri # uri

\* C37: a completion decrypts only the file of the session that is active
\* when it is processed: a replaced session is never completed, and once
\* a.ts then b.ts are locked no completion touches a.ts, which stays locked.
C37_OnlyActiveSessionDecrypts ==
  /\ [][Len(edits') > Len(edits) =>
          /\ session # 0 /\ lastOp' = "end"
          /\ edits' = Append(edits, [uri |-> sessionFile[session],
                                     text |-> edits'[Len(edits')].text])]_vars
  /\ [](\A s \in replaced : onCompleteCalls[s] = <<>>)
  /\ [](LockedInTurn => Untouched("a.ts"))
  /\ [][(LockedInTurn /\ lastOp' \in {"end", "applyEdit"}) =>
          documents'["a.ts"] = documents["a.ts"]]_vars

\* two completions were answered after a.ts and b.ts were locked: b.ts is
\* unlocked, a.ts is still encrypted and locked
C37_Witness ==
  /\ LockedInTurn /\ okReplies >= 2
  /\ decryptLog["b.ts"] = <<"unlocked">> /\ ~isEncrypted(documents["b.ts"].content)
  /\ "b.ts" \notin lockedFiles
  /\ "a.ts" \in lockedFiles /\ isEncrypted(documents["a.ts"].content)

(***************************************************************************)
(* Opening documents that handleFileOpen leaves alone                      *)
(***************************************************************************)
\* the workspace holds a.ts and one document of a kind that is skipped: an
\* untitled buffer, a file under dist, a file whose name contains 'build', a
\* file of white space, a file of 1,000,001 letters or a file saved encrypted
Skipped == {"untitled:Untitled-1", "dist/c.js", "rebuild.ts", "blank.ts", "big.ts",
            "enc.ts"}

Held(uri) ==
  CASE uri = "a.ts" -> Original(uri)
    [] uri = "blank.ts" -> <<32, 10, 9, 160>>
    [] uri = "big.ts" -> [i \in 1..1000001 |-> 65]
    [] uri = "enc.ts" -> encryptContent(<<72, 105>>)
    [] OTHER -> <<72, 105>>

InitOpen ==
  /\ IMAGES = <<"monkeythink", "khaby", "mewing">> /\ InitPageState /\ InitServer
  /\ allChallenges = ALL_CHALLENGES /\ shuffled = <<>> /\ clock = 0
  /\ given = NoInput /\ answer = NoAnswer
  /\ server = "null"
  /\ \E other \in Skipped :
        documents = [uri \in {"a.ts", other} |-> [open |-> FALSE, content |-> Held(uri)]]
  /\ lockedFiles = {}
  /\ sessionFile = [s \in 1..MaxSessions |-> "none"]
  /\ edits = <<>>
  /\ starts = [s \in 1..MaxSessions |-> <<>>]
  /\ decryptLog = [uri \in Files |-> <<>>]
  /\ lastCall = "none"

NextOpen ==
  \/ \E uri \in DOMAIN documents, applied \in BOOLEAN : handleFileOpen(uri, applied)
  \/ \E uri \in DOMAIN documents : closeDocument(uri)
  \/ listenCallback
  \/ serverError

SpecOpen == InitOpen /\ [][NextOpen]_vars

\* the document that the step opens
Opens(uri) == lastOp' = "open" /\ ~documents[uri].open /\ documents'[uri].open

LeftAlone(uri, content) ==
  \/ scheme(uri) # "file"
  \/ \E pattern \in skipPatterns :
        \E i \in 1..Len(fsPath(uri)) :
           /\ i + Len(pattern) - 1 <= Len(fsPath(uri))
           /\ \A j \in 1..Len(pattern) : fsPath(uri)[i + j - 1] = pattern[j]
  \/ startsWith(content, marker)
  \/ \A i \in 1..Len(content) : content[i] \in {9, 10, 32, 160}
  \/ Len(content) >= 1000001

\* C38: handleFileOpen changes neither a text, nor lockedFiles, nor the
\* session, nor the server when the document has another scheme than file, a
\* path that contains a skip pattern, a text that starts with the marker, a
\* text of white space or none, or a text of more than 1,000,000 characters.
C38_SkippedDocumentUntouched ==
  [][\A uri \in DOMAIN documents :
       (Opens(uri) /\ LeftAlone(uri, documents[uri].content)) =>
          /\ \A other \in DOMAIN documents :
                documents'[other].content = documents[other].content
          /\ UNCHANGED <<lockedFiles, session, registered, sessionFile, server,
                         starts, edits>>]_vars

\* the file saved encrypted was opened after a.ts was locked and its server
\* listened: its text is what it was, and a.ts alone is locked
C38_Witness ==
  /\ DOMAIN documents = {"a.ts", "enc.ts"}
  /\ \A uri \in DOMAIN documents : documents[uri].open
  /\ lastOp = "open" /\ server = "listening"
  /\ documents["enc.ts"].content = Held("enc.ts")
  /\ documents["a.ts"].content = encryptContent(Original("a.ts"))
  /\ lockedFiles = {"a.ts"} /\ registered = 1 /\ session = 1

(***************************************************************************)
(* Stopping the server while challenges are started                        *)
(***************************************************************************)
\* stopServer(), up to its return: server.close(callback) on the server of
\* the variable, which stops listening and keeps the variable until the
\* callback runs; without a server the promise resolves at once. Stopping a
\* server whose listen has not answered yet is left out.
stopServer ==
  /\ server # "binding"
  /\ server' = IF server # "null" THEN "closing" ELSE server
  /\ lastCall' = "stopServer"
  /\ extensionStep
  /\ lastOp' = "stopServer"
  /\ UNCHANGED <<documents, lockedFiles, sessionFile, edits, starts, decryptLog>>

\* the callback of server.close: server = null; resolve()
closeCallback ==
  /\ server = "closing"
  /\ server' = "null"
  /\ extensionStep
  /\ lastOp' = "closed"
  /\ UNCHANGED <<documents, lockedFiles, sessionFile, edits, starts, decryptLog,
                 lastCall>>

\* files are opened while the extension is deactivated; the port is free
NextStop ==
  \/ \E uri \in Files, applied \in BOOLEAN : handleFileOpen(uri, applied)
  \/ \E uri \in Files : closeDocument(uri)
  \/ listenCallback
  \/ stopServer
  \/ closeCallback

SpecStop == InitLocked /\ [][NextStop]_vars

\* no promise of startServer or stopServer is pending
Settled ==
  /\ server \notin {"binding", "closing"}
  /\ \A s \in DOMAIN starts : \A i \in 1..Len(starts[s]) : starts[s][i].state # "pending"

\* C39: once every promise of startServer and stopServer has settled, the
\* server listens exactly if the call issued last was startServer.
C39_ListeningIffStartedLast ==
  Settled => (server = "listening" <=> lastCall = "startServer")

====
